---------------------------- MODULE Spec2Model ----------------------------
(***************************************************************************)
(* Model of the display-board scrapers (one script per High Court site).   *)
(*                                                                         *)
(*   Spec         the driver loop of main(): day rollover, scrape, save to  *)
(*                the day-file, POST, periodic backup, sleep, operator      *)
(*                interrupt and re-launch.  Three families of scripts are   *)
(*                covered: "telangana" (timestamped full-copy backup, no    *)
(*                API), "allahabad" (the same with the ENABLE_* toggles and *)
(*                the ingestion step) and "gwalior" (one backup file per    *)
(*                day fed from pending_backup_data).                        *)
(*   SpecNorm     the field normalizers, applied to bounded inputs.         *)
(*   SpecExtract  the row loop of scrape_display_board().                   *)
(*   SpecSink     save_to_excel() applied twice to the same record set.     *)
(***************************************************************************)
EXTENDS Integers, Sequences, FiniteSets, TLC

(* ------------------------------ bounds -------------------------------- *)
\* BACKUP_CYCLE_INTERVAL is 60 (100 in the Gwalior script); the model takes
\* a small N so that several backup periods fit in a run.
BACKUP_CYCLE_INTERVAL == 2
\* loop iterations over all runs of the script
MaxCycles == 4
\* calendar days the clock can reach
MaxDay == 2
\* records one scrape can return
MaxRecs == 2
\* launches of the script by the operator
MaxRuns == 2
\* Rows of the display board's table.
MaxRows == 3
\* Characters of a string handed to a normalizer.
MaxLen == 6
MaxCourts == 3
MaxSpan == 2
MaxFind == 1
MaxCases == 3
MANUAL_CAPTCHA_TIMEOUT == 3
AUTO_CAPTCHA_ENABLED == TRUE

VARIABLES
    \* ---- driver: configuration (module-level constants of one script)
    variant,              \* "telangana" | "allahabad" | "gwalior"
    ENABLE_EXCEL_SAVING,
    ENABLE_API_POSTING,
    \* ---- driver: environment
    now,                  \* the calendar day datetime.now() reports
    dayfile,              \* day -> the main Excel file of that day's folder
    backups,              \* the backup files on disk
    \* ---- driver: locals of main()
    pc,
    driver_open,
    date_folder,
    excel_path,
    backup_path,
    cycle_count,
    first_cycle,
    last_backup_cycle,
    pending_backup_data,
    courts_data,
    excel_success,
    api_result,
    \* ---- driver: history (not program state)
    runs,                 \* launches so far
    totalCycles,          \* loop iterations so far, over all runs
    hist,                 \* what happened in the current cycle
    \* ---- normalizers
    nfn, nin, nout,
    \* ---- row extraction
    xvariant, xrows, xidx, all_courts_data, xpc, xresult,
    current_court,        \* the court number carried from row to row
    \* ---- tabular sink applied twice
    sfile, sdata, sfile0, scalls,
    scrash,               \* where the process crashed, if it did
    sbk,                  \* what the backup attempts returned
    sbackups,             \* the rows of the backup files created
    slast_backup_cycle,   \* last_backup_cycle of main()
    svariant,             \* the script whose main() calls the sink
    \* ---- ingestion step of one cycle
    ivariant,             \* "allahabad" | "patna"
    ienabled,             \* ENABLE_API_POSTING of that script
    ibatch,               \* len(courts_data)
    ipc, icalls,          \* where main() is, calls of post_all_courts_to_api
    iidx, successful_posts, failed_posts, errors,
    ianswer, ireturn,     \* the endpoint's last answer, what the POST returned
    iattempts,            \* the records POSTed so far in the cycle (history)
    iresult,              \* api_result
    ifailed,              \* the records whose POST failed in this call (history)
    \* ---- main(): the life of the process
    m_variant,            \* which script
    m_excel, m_api,       \* ENABLE_EXCEL_SAVING, ENABLE_API_POSTING
    m_pc,                 \* where main() is
    m_driver,             \* the browser: "none" | "open" | "quit"
    m_cycle_count, m_last_backup_cycle,
    m_courts,             \* len(courts_data)
    m_excel_success,
    m_trace,              \* the steps taken since the last completed sleep (history)
    m_faults,             \* the failures met in the current cycle (history)
    m_exit,               \* how the loop or the script was left (history)
    m_cycles,             \* loop iterations so far (history)
    m_first_cycle,        \* first_cycle of main()
    m_owed,               \* what became of the last failed backup (history)
    m_before,             \* the counters when the cycle began (history)
    \* ---- one cycle over a fixed three-row table
    f_variant,            \* "allahabad" | "jharkhand"
    f_width,              \* td cells of a full row of the table
    f_rows,               \* the data rows, after the header row
    f_idx, f_courts,      \* row index, all_courts_data
    f_log,                \* what the row loop has printed about skipped rows
    f_pc,
    f_posted, f_successful, f_failed, f_errors,
    f_result,             \* api_result
    \* ---- the CAPTCHA gate of Port Blair's main()
    c_pc,                 \* where main() is
    c_driver,             \* the browser: "none" | "open" | "quit"
    c_auto_tries,         \* calls of try_auto_captcha (history)
    c_manual,             \* handle_manual_captcha was entered (history)
    c_elapsed,            \* time.time() - start_time, in seconds
    c_result,             \* what validate_captcha returned
    c_cycles,             \* iterations of the loop begun (history)
    c_written             \* record sets saved or posted (history)

driverVars == <<variant, ENABLE_EXCEL_SAVING, ENABLE_API_POSTING, now, dayfile,
                backups, pc, driver_open, date_folder, excel_path, backup_path,
                cycle_count, first_cycle, last_backup_cycle,
                pending_backup_data, courts_data, excel_success, api_result,
                runs, totalCycles, hist>>
normVars == <<nfn, nin, nout>>
extractVars == <<xvariant, xrows, xidx, all_courts_data, xpc, xresult,
                 current_court>>
sinkVars == <<sfile, sdata, sfile0, scalls, scrash, sbk, sbackups,
              slast_backup_cycle,
             svariant>>
ingestVars == <<ivariant, ienabled, ibatch, ipc, icalls, iidx,
                successful_posts, failed_posts, errors, ianswer, ireturn,
                iattempts, iresult, ifailed>>
mainVars == <<m_variant, m_excel, m_api, m_pc, m_driver, m_cycle_count,
              m_last_backup_cycle, m_courts, m_excel_success, m_trace,
              m_faults, m_exit, m_cycles, m_first_cycle, m_owed, m_before>>
fixtureVars == <<f_variant, f_width, f_rows, f_idx, f_courts, f_log, f_pc,
                 f_posted, f_successful, f_failed, f_errors, f_result>>
captchaVars == <<c_pc, c_driver, c_auto_tries, c_manual, c_elapsed, c_result,
                 c_cycles, c_written>>
otherVars == <<normVars, extractVars, sinkVars, ingestVars, mainVars,
               fixtureVars,
                   captchaVars>>
vars == <<driverVars, normVars, extractVars, sinkVars, ingestVars, mainVars,
          fixtureVars,
                   captchaVars>>

(* ------------------------- spreadsheet files -------------------------- *)
Days == 1..MaxDay
\* date_folder / excel_path when create_folder() returned None
None == 0

NoFile == [exists |-> FALSE, rows |-> <<>>]

\* One record of a scrape, reduced to one text field (Case No, Running Item
\* No, ...), which is empty for a court that is not in session.
Record(text) == [v |-> text]

\* What one scrape of the driver yields: n records.
Page(n) == [i \in 1..n |-> Record("txt")]

\* The cell texts pd.read_excel takes for missing values (its default
\* na_values, keep_default_na=True): the empty cell and markers like "N/A".
NaValues == {"", "N/A"}

\* pd.read_excel: a cell holding one of the NaValues comes back as NaN.
ReadExcelRow(r) == [r EXCEPT !.v = IF @ \in NaValues THEN "NaN" ELSE @]
ReadExcel(rows) == [i \in 1..Len(rows) |-> ReadExcelRow(rows[i])]

\* DataFrame.to_excel: NaN is written as the empty cell (na_rep='').
ToExcelRow(r) == [r EXCEPT !.v = IF @ = "NaN" THEN "" ELSE @]
ToExcel(rows) == [i \in 1..Len(rows) |-> ToExcelRow(rows[i])]

\* df = df[[...columns...]]: the fixed column order; every record carries
\* every column, so the selection keeps the rows as they are.
SelectColumns(data) == data

\* A save that leaves out the records the file already holds.
SaveDedups(data, file, io_error) ==
    IF data = <<>> THEN [ok |-> FALSE, file |-> file]
    ELSE IF io_error THEN [ok |-> FALSE, file |-> file]
    ELSE LET old == IF file.exists THEN ReadExcel(file.rows) ELSE <<>>
             new == SelectColumns(data)
             fresh == SelectSeq(new, LAMBDA r :
                         \A i \in 1..Len(old) : old[i] # ReadExcelRow(r))
         IN [ok |-> TRUE,
             file |-> [exists |-> TRUE, rows |-> ToExcel(old \o fresh)]]

\* save_to_excel(data, file_path): the file afterwards and the value returned.
\* io_error: read_excel / to_excel raised (caught by the blanket except).
save_to_excel(data, file, io_error) ==
    IF data = <<>> THEN [ok |-> FALSE, file |-> file]
    ELSE IF io_error THEN [ok |-> FALSE, file |-> file]
    ELSE IF file.exists
         THEN LET existing_df == ReadExcel(file.rows)
                  combined_df == existing_df \o SelectColumns(data)
              IN [ok |-> TRUE,
                  file |-> [exists |-> TRUE, rows |-> ToExcel(combined_df)]]
         ELSE [ok |-> TRUE,
               file |-> [exists |-> TRUE,
                         rows |-> ToExcel(SelectColumns(data))]]

\* create_backup_from_main_excel(main_excel_path, folder): the rows written to
\* the new timestamped file and the value returned.
BackupCopiesWhatever(file, io_error) ==
    IF io_error THEN [ok |-> FALSE, rows |-> <<>>]
    ELSE [ok |-> TRUE, rows |-> ToExcel(ReadExcel(file.rows))]

create_backup_from_main_excel(file, io_error) ==
    IF ~file.exists THEN [ok |-> FALSE, rows |-> <<>>]
    ELSE IF io_error THEN [ok |-> FALSE, rows |-> <<>>]
    ELSE LET main_df == ReadExcel(file.rows)
         IN IF main_df = <<>> THEN [ok |-> FALSE, rows |-> <<>>]
            ELSE [ok |-> TRUE, rows |-> ToExcel(main_df)]

\* save_to_backup(data, backup_path) of the Gwalior script: appends the
\* pending records to the day's single backup file.
save_to_backup(data, file, io_error) ==
    IF data = <<>> THEN [ok |-> FALSE, file |-> file]
    ELSE IF io_error THEN [ok |-> FALSE, file |-> file]
    ELSE IF file.exists
         THEN LET existing_df == ReadExcel(file.rows)
                  combined_df == existing_df \o SelectColumns(data)
              IN [ok |-> TRUE,
                  file |-> [exists |-> TRUE, rows |-> ToExcel(combined_df)]]
         ELSE [ok |-> TRUE,
               file |-> [exists |-> TRUE,
                         rows |-> ToExcel(SelectColumns(data))]]


(* ------------------------------ driver -------------------------------- *)
Variants == {"telangana", "allahabad", "gwalior"}

\* The scripts with the ENABLE_EXCEL_SAVING / ENABLE_API_POSTING toggles.
HasToggles == variant = "allahabad"

\* get_date_folder(): the folder name computed from today's date.
get_date_folder == now

\* create_folder(): today's folder (created if missing); None when Excel
\* saving is switched off.
create_folder == IF HasToggles /\ ~ENABLE_EXCEL_SAVING THEN None ELSE now

\* get_excel_path(folder): today's file name inside folder; None without one.
get_excel_path(folder) == IF folder = None THEN None ELSE now

\* History of the run, kept beside the program's own counters:
\*   rolled, saved, attempted, produced, bkErr   what this cycle did (a day
\*       rollover, a successful save, a backup attempt, a backup file, an
\*       I/O error in the backup);
\*   since     cycles begun since the last backup file of this day's counters
\*             (if none: since the rollover, or since the launch where the
\*             rollover keeps the counter), this cycle included;
\*   inRun     cycles begun since the launch;
\*   okSaves   cycles with a successful save since the launch or rollover;
\*   bkFault   some backup of this run met an I/O error.
NoHist == [rolled |-> FALSE, saved |-> FALSE, attempted |-> FALSE,
           produced |-> FALSE, bkErr |-> FALSE, since |-> 0, inRun |-> 0,
           okSaves |-> 0, bkFault |-> FALSE]

NoResult == [total |-> 0, successful |-> 0, failed |-> 0]

\* The single backup file of a day (Gwalior) is the entry with stamp 0; a
\* timestamped backup carries the stamp of the cycle that wrote it.
BackupFileOf(folder) ==
    IF \E b \in backups : b.folder = folder /\ b.stamp = 0
    THEN [exists |-> TRUE,
          rows |-> (CHOOSE b \in backups : b.folder = folder /\ b.stamp = 0).rows]
    ELSE NoFile

\* The script has not been launched; the disk is empty.
DriverInit ==
    /\ variant \in Variants
    /\ ENABLE_EXCEL_SAVING \in BOOLEAN
    /\ ENABLE_API_POSTING \in BOOLEAN
    /\ (variant # "allahabad") => (ENABLE_EXCEL_SAVING /\ ~ENABLE_API_POSTING)
    /\ now = 1
    /\ dayfile = [d \in Days |-> NoFile]
    /\ backups = {}
    /\ pc = "not_started"
    /\ driver_open = FALSE
    /\ date_folder = None
    /\ excel_path = None
    /\ backup_path = None
    /\ cycle_count = 0
    /\ first_cycle = TRUE
    /\ last_backup_cycle = 0
    /\ pending_backup_data = <<>>
    /\ courts_data = <<>>
    /\ excel_success = FALSE
    /\ api_result = NoResult
    /\ runs = 0
    /\ totalCycles = 0
    /\ hist = NoHist

\* main() up to the loop: folders and paths, the browser, the counters.
\* The operator launches the script, also again after it has ended.
Start ==
    /\ pc \in {"not_started", "terminated"}
    /\ runs < MaxRuns
    /\ runs' = runs + 1
    /\ date_folder' = create_folder
    /\ excel_path' = get_excel_path(create_folder)
    /\ backup_path' = IF variant = "gwalior" THEN now ELSE None
    /\ driver_open' = TRUE
    /\ cycle_count' = 0
    /\ first_cycle' = TRUE
    /\ last_backup_cycle' = 0
    /\ pending_backup_data' = <<>>
    /\ courts_data' = <<>>
    /\ excel_success' = FALSE
    /\ api_result' = NoResult
    /\ hist' = NoHist
    /\ pc' = "top"
    /\ UNCHANGED <<variant, ENABLE_EXCEL_SAVING, ENABLE_API_POSTING, now,
                   dayfile, backups, totalCycles>>
    /\ UNCHANGED otherVars

\* cycle_count after a rollover: reset to 1 for the new day, except in the
\* Gwalior script, whose rollover branch leaves the counter alone.
RolloverCycleCount == IF variant = "gwalior" THEN cycle_count + 1 ELSE 1

StaleExcelPath == excel_path

\* excel_path = get_excel_path(date_folder) after date_folder = create_folder()
RolloverExcelPath == get_excel_path(create_folder)

\* Top of the loop: count the cycle, detect a new day.
CycleStart ==
    /\ pc = "top"
    /\ totalCycles < MaxCycles
    /\ totalCycles' = totalCycles + 1
    /\ LET checked == IF HasToggles
                      THEN ENABLE_EXCEL_SAVING /\ date_folder # None
                      ELSE TRUE
           rolled == checked /\ get_date_folder # date_folder
       IN IF rolled
          THEN /\ date_folder' = create_folder
               /\ excel_path' = RolloverExcelPath
               /\ backup_path' = IF variant = "gwalior" THEN now ELSE None
               /\ first_cycle' = TRUE
               /\ last_backup_cycle' = 0
               /\ cycle_count' = RolloverCycleCount
               /\ pending_backup_data' = <<>>
               /\ hist' = [hist EXCEPT !.rolled = TRUE, !.saved = FALSE,
                             !.attempted = FALSE, !.produced = FALSE,
                             !.bkErr = FALSE,
                             !.since = IF variant = "gwalior"
                                       THEN hist.inRun + 1 ELSE 1,
                             !.inRun = @ + 1, !.okSaves = 0]
          ELSE /\ cycle_count' = cycle_count + 1
               /\ hist' = [hist EXCEPT !.rolled = FALSE, !.saved = FALSE,
                             !.attempted = FALSE, !.produced = FALSE,
                             !.bkErr = FALSE,
                             !.since = IF hist.produced THEN 1 ELSE @ + 1,
                             !.inRun = @ + 1]
               /\ UNCHANGED <<date_folder, excel_path, backup_path, first_cycle,
                              last_backup_cycle, pending_backup_data>>
    /\ pc' = "scrape"
    /\ UNCHANGED <<variant, ENABLE_EXCEL_SAVING, ENABLE_API_POSTING, now,
                   dayfile, backups, driver_open, courts_data, excel_success,
                   api_result, runs>>
    /\ UNCHANGED otherVars

\* courts_data = scrape_display_board(driver): zero records on any failure.
Scrape ==
    /\ pc = "scrape"
    /\ \E n \in 0..MaxRecs :
          /\ courts_data' = Page(n)
          /\ pc' = IF n = 0 THEN "sleep" ELSE "save"
          \* "if courts_data: excel_success = False; api_result = None"
          /\ IF n > 0 /\ HasToggles
             THEN excel_success' = FALSE /\ api_result' = NoResult
             ELSE UNCHANGED <<excel_success, api_result>>
    /\ UNCHANGED <<variant, ENABLE_EXCEL_SAVING, ENABLE_API_POSTING, now,
                   dayfile, backups, driver_open, date_folder, excel_path,
                   backup_path, cycle_count, first_cycle, last_backup_cycle,
                   pending_backup_data, runs, totalCycles, hist>>
    /\ UNCHANGED otherVars

\* success = save_to_excel(courts_data, excel_path, open_file=first_cycle)
Save ==
    /\ pc = "save"
    /\ IF HasToggles /\ ~(ENABLE_EXCEL_SAVING /\ excel_path # None)
       THEN UNCHANGED <<dayfile, excel_success, hist>>
       ELSE \E io_error \in BOOLEAN :
               LET r == save_to_excel(courts_data, dayfile[excel_path], io_error)
               IN /\ dayfile' = [dayfile EXCEPT ![excel_path] = r.file]
                  /\ excel_success' = r.ok
                  /\ hist' = [hist EXCEPT !.saved = r.ok,
                                !.okSaves = IF r.ok THEN @ + 1 ELSE @]
    /\ pc' = IF HasToggles THEN "post" ELSE "backup"
    /\ UNCHANGED <<variant, ENABLE_EXCEL_SAVING, ENABLE_API_POSTING, now,
                   backups, driver_open, date_folder, excel_path, backup_path,
                   cycle_count, first_cycle, last_backup_cycle,
                   pending_backup_data, courts_data, api_result, runs,
                   totalCycles>>
    /\ UNCHANGED otherVars

\* api_result = post_all_courts_to_api(courts_data): one POST per record,
\* each of which the endpoint accepts or not.
Post ==
    /\ pc = "post"
    /\ IF ENABLE_API_POSTING
       THEN \E okn \in 0..Len(courts_data) :
               api_result' = [total |-> Len(courts_data), successful |-> okn,
                              failed |-> Len(courts_data) - okn]
       ELSE UNCHANGED api_result
    /\ pc' = "backup"
    /\ UNCHANGED <<variant, ENABLE_EXCEL_SAVING, ENABLE_API_POSTING, now,
                   dayfile, backups, driver_open, date_folder, excel_path,
                   backup_path, cycle_count, first_cycle, last_backup_cycle,
                   pending_backup_data, courts_data, excel_success, runs,
                   totalCycles, hist>>
    /\ UNCHANGED otherVars

BackupDueStrict ==
    cycle_count - last_backup_cycle > BACKUP_CYCLE_INTERVAL

\* if cycle_count - last_backup_cycle >= BACKUP_CYCLE_INTERVAL
BackupDue ==
    cycle_count - last_backup_cycle >= BACKUP_CYCLE_INTERVAL

\* backup_success = create_backup_from_main_excel(excel_path, date_folder)
TimestampedBackup(file, io_error) ==
    create_backup_from_main_excel(file, io_error)

\* "if success:" ... the part of the cycle after a successful save.
Backup ==
    /\ pc = "backup"
    /\ IF ~excel_success
       THEN UNCHANGED <<first_cycle, last_backup_cycle, pending_backup_data,
                        backups, hist>>
       ELSE /\ first_cycle' = FALSE
            /\ IF variant = "gwalior"
               THEN LET pending == pending_backup_data \o courts_data
                    IN IF BackupDue
                       THEN \E io_error \in BOOLEAN :
                              LET r == save_to_backup(pending,
                                         BackupFileOf(backup_path), io_error)
                              IN /\ backups' = IF r.ok
                                      THEN {b \in backups :
                                              ~(b.folder = backup_path /\ b.stamp = 0)}
                                           \cup {[folder |-> backup_path, stamp |-> 0,
                                                  rows |-> r.file.rows]}
                                      ELSE backups
                                 /\ last_backup_cycle' =
                                      IF r.ok THEN cycle_count ELSE last_backup_cycle
                                 /\ pending_backup_data' =
                                      IF r.ok THEN <<>> ELSE pending
                                 /\ hist' = [hist EXCEPT !.attempted = TRUE,
                                               !.produced = r.ok,
                                               !.bkErr = io_error,
                                               !.bkFault = @ \/ io_error]
                       ELSE /\ pending_backup_data' = pending
                            /\ UNCHANGED <<last_backup_cycle, backups, hist>>
               ELSE /\ UNCHANGED pending_backup_data
                    /\ IF (HasToggles => ENABLE_EXCEL_SAVING) /\ BackupDue
                       THEN \E io_error \in BOOLEAN :
                              LET r == TimestampedBackup(dayfile[excel_path],
                                                         io_error)
                              IN /\ backups' = IF r.ok
                                      THEN backups \cup
                                           {[folder |-> date_folder,
                                             stamp |-> totalCycles,
                                             rows |-> r.rows]}
                                      ELSE backups
                                 /\ last_backup_cycle' =
                                      IF r.ok THEN cycle_count ELSE last_backup_cycle
                                 /\ hist' = [hist EXCEPT !.attempted = TRUE,
                                               !.produced = r.ok,
                                               !.bkErr = io_error,
                                               !.bkFault = @ \/ io_error]
                       ELSE UNCHANGED <<last_backup_cycle, backups, hist>>
    /\ pc' = "sleep"
    /\ UNCHANGED <<variant, ENABLE_EXCEL_SAVING, ENABLE_API_POSTING, now,
                   dayfile, driver_open, date_folder, excel_path, backup_path,
                   cycle_count, courts_data, excel_success, api_result, runs,
                   totalCycles>>
    /\ UNCHANGED otherVars

\* time.sleep(SCRAPE_INTERVAL), then the next iteration.
Sleep ==
    /\ pc = "sleep"
    /\ pc' = "top"
    /\ UNCHANGED <<variant, ENABLE_EXCEL_SAVING, ENABLE_API_POSTING, now,
                   dayfile, backups, driver_open, date_folder, excel_path,
                   backup_path, cycle_count, first_cycle, last_backup_cycle,
                   pending_backup_data, courts_data, excel_success, api_result,
                   runs, totalCycles, hist>>
    /\ UNCHANGED otherVars

\* Midnight passes (at any point of the run).
Tick ==
    /\ pc \notin {"not_started", "terminated"}
    /\ now < MaxDay
    /\ now' = now + 1
    /\ UNCHANGED <<variant, ENABLE_EXCEL_SAVING, ENABLE_API_POSTING, dayfile,
                   backups, pc, driver_open, date_folder, excel_path,
                   backup_path, cycle_count, first_cycle, last_backup_cycle,
                   pending_backup_data, courts_data, excel_success, api_result,
                   runs, totalCycles, hist>>
    /\ UNCHANGED otherVars

\* except KeyboardInterrupt / finally: the operator stops the script; the
\* browser is closed and main() returns, which ends the life of its locals.
Interrupt ==
    /\ pc \in {"top", "scrape", "save", "post", "backup", "sleep"}
    /\ pc' = "terminated"
    /\ driver_open' = FALSE
    /\ date_folder' = None
    /\ excel_path' = None
    /\ backup_path' = None
    /\ cycle_count' = 0
    /\ first_cycle' = TRUE
    /\ last_backup_cycle' = 0
    /\ pending_backup_data' = <<>>
    /\ courts_data' = <<>>
    /\ excel_success' = FALSE
    /\ api_result' = NoResult
    /\ hist' = NoHist
    /\ UNCHANGED <<variant, ENABLE_EXCEL_SAVING, ENABLE_API_POSTING, now,
                   dayfile, backups, runs, totalCycles>>
    /\ UNCHANGED otherVars

DriverNext ==
    \/ Start
    \/ CycleStart
    \/ Scrape
    \/ Save
    \/ Post
    \/ Backup
    \/ Sleep
    \/ Tick
    \/ Interrupt


(* ------------------- the tabular sink, applied twice ------------------ *)
\* Sequences of at most n elements of S.
SeqUpTo(S, n) == UNION {[1..k -> S] : k \in 0..n}

\* The text of a field as scraped, and as a cell of a file on disk can hold it.
ScrapedTexts == {"", "txt", "N/A"}
StoredTexts == {"", "txt", "N/A"}

\* A day-file as it may lie on disk when save_to_excel is called, and a
\* record set handed to it.
SinkInit ==
    /\ sfile0 \in {NoFile} \cup
                  {[exists |-> TRUE, rows |-> r] :
                      r \in SeqUpTo({Record(t) : t \in StoredTexts}, MaxRecs)}
    /\ sdata \in SeqUpTo({Record(t) : t \in ScrapedTexts}, MaxRecs)
    /\ sfile = sfile0
    /\ scalls = <<>>
    /\ scrash = "none"
    /\ sbk = <<>>
    /\ sbackups = <<>>
    /\ slast_backup_cycle = 0
    /\ svariant = "any"

\* save_to_excel(sdata, file_path), called once more with the same sdata.
SinkSave ==
    /\ Len(scalls) < 2 /\ scrash = "none"
    /\ \E io_error \in BOOLEAN :
          LET r == save_to_excel(sdata, sfile, io_error)
          IN /\ sfile' = r.file
             /\ scalls' = Append(scalls, r.ok)
    /\ UNCHANGED <<sfile0, sdata, scrash, sbk, sbackups, slast_backup_cycle,
                   svariant>>
    /\ UNCHANGED <<driverVars, normVars, extractVars, ingestVars, mainVars,
                   fixtureVars,
                   captchaVars>>

\* Where a crash of the process (kill, power loss) can fall in a cycle, as
\* far as the day-file is concerned: before to_excel opens the file (anywhere
\* else in the cycle included), while it rewrites it, after it has closed it.
CrashPoints == {"before_write", "during_write", "after_write"}

\* The day-file a crash leaves behind.  to_excel writes the whole workbook
\* anew over file_path, it does not write a new file and rename it: a crash
\* during the write leaves a truncated archive, from which no row can be read.
CrashInSave(data, file, point) ==
    CASE point = "during_write" /\ data # <<>> ->
            [exists |-> TRUE, rows |-> <<>>]
      [] point = "after_write" -> save_to_excel(data, file, FALSE).file
      [] OTHER -> file

\* The process dies in a cycle whose records are sdata.
SinkCrash ==
    /\ scrash = "none"
    /\ \E point \in CrashPoints :
          /\ scrash' = point
          /\ sfile' = CrashInSave(sdata, sfile, point)
    /\ UNCHANGED <<sfile0, sdata, scalls, sbk, sbackups, slast_backup_cycle,
                   svariant>>
    /\ UNCHANGED <<driverVars, normVars, extractVars, ingestVars, mainVars,
                   fixtureVars,
                   captchaVars>>

\* main(): backup_success = create_backup_from_main_excel(excel_path, ...);
\* if backup_success: last_backup_cycle = cycle_count -- run on the day-file
\* as it stands, in some cycle.
SinkBackup ==
    /\ Len(sbk) < 1 /\ scrash = "none"
    /\ \E io_error \in BOOLEAN, cycle \in 1..MaxCycles :
          LET r == TimestampedBackup(sfile, io_error)
          IN /\ sbk' = Append(sbk, r.ok)
             /\ sbackups' = IF r.ok THEN Append(sbackups, r.rows) ELSE sbackups
             /\ slast_backup_cycle' = IF r.ok THEN cycle ELSE slast_backup_cycle
    /\ UNCHANGED <<sfile, sfile0, sdata, scalls, scrash, svariant>>
    /\ UNCHANGED <<driverVars, normVars, extractVars, ingestVars, mainVars,
                   fixtureVars,
                   captchaVars>>

\* C21: a backup attempted while the day-file does not exist or holds no row
\* returns false, creates no backup file and leaves last_backup_cycle alone.
C21_BackupOfMissingOrEmptyDayFileSkipped ==
    [][(Len(sbk') > Len(sbk) /\ (~sfile.exists \/ sfile.rows = <<>>)) =>
          /\ sbk'[Len(sbk')] = FALSE
          /\ sbackups' = sbackups
          /\ slast_backup_cycle' = slast_backup_cycle]_vars

C21_Witness ==
    /\ sbk = <<FALSE>> /\ sfile.exists /\ sfile.rows = <<>>
    /\ sbackups = <<>> /\ scalls = <<FALSE>>

\* C10: two calls with the same record set, both successful, leave the file
\* with its former rows followed by the record set twice: it has grown by
\* twice the size of the set, and no row has been dropped as a duplicate.
C10_SaveTwiceAppendsTwice ==
    (scalls = <<TRUE, TRUE>> /\ scrash = "none") =>
        /\ Len(sfile.rows) = Len(sfile0.rows) + 2 * Len(sdata)
        /\ sfile.rows = ToExcel(ReadExcel(sfile0.rows))
                        \o ToExcel(ReadExcel(sdata)) \o sdata

\* C11: every call of save_to_excel leaves the rows the day-file held
\* unchanged and in their order; a successful call puts the new records
\* after them, in their order, a failed call adds nothing; so the number of
\* rows never decreases.
C11_DayFileAppendOnly ==
    [][Len(scalls') > Len(scalls) =>
         LET ok == scalls'[Len(scalls')]
         IN /\ Len(sfile'.rows) >= Len(sfile.rows)
            /\ SubSeq(sfile'.rows, 1, Len(sfile.rows)) = sfile.rows
            /\ sfile'.rows = IF ok THEN sfile.rows \o sdata
                             ELSE sfile.rows]_vars

\* C18: a crash at any point of a cycle loses at most that cycle's records:
\* every row the day-file held before the crash is still read from it
\* afterwards, at its place, and the file holds nothing but those rows and
\* at most the records of the crashed cycle.
C18_CrashKeepsEarlierRows ==
    [][scrash' # scrash =>
         /\ Len(sfile'.rows) >= Len(sfile.rows)
         /\ ReadExcel(SubSeq(sfile'.rows, 1, Len(sfile.rows)))
               = ReadExcel(sfile.rows)
         /\ Len(sfile'.rows) <= Len(sfile.rows) + Len(sdata)]_vars

\* C10's case: the record set repeats a row the file already held, and both
\* calls succeeded.
C10_Witness ==
    /\ scalls = <<TRUE, TRUE>> /\ scrash = "none"
    /\ sfile0.exists
    /\ \E i \in 1..Len(sdata), j \in 1..Len(sfile0.rows) :
          sdata[i] = sfile0.rows[j]
    /\ Len(sdata) = 2 /\ sdata[1] = sdata[2]

(* --------------------- scrape_display_board's row loop ---------------- *)
\* The site variants whose row loops are modelled.
ExtractVariants == {"telangana", "allahabad", "andhrapradesh"}

\* What the browser may do while a row is read: nothing, raise from
\* row.find_elements (the row has gone stale), or raise from get_attribute on
\* the row's first cell.
Faults == {"none", "find_elements", "get_attribute"}

\* A table row: how many td cells it has and what goes wrong reading it.
CellCounts == {3, 5, 8}
TableRows == [cells : CellCounts, fault : Faults]

Stale(row, idx) == row.fault = "get_attribute" /\ idx = 0

\* extract_cell_text: the cell's text, "" if reading the cell raises.
extract_cell_text(row, idx) == IF Stale(row, idx) THEN "" ELSE "txt"

\* A court's group of cells starts with a cell holding the court's link;
\* get_court_number_from_link finds none if reading the cell raises.
HasCourtLink(row, idx) == idx % 4 = 0 /\ ~Stale(row, idx)

CourtRecord(i, idx, text) == [row |-> i, cell |-> idx, court_no |-> text]

\* telangana: while idx < len(cells), one record per court link.
RECURSIVE TelanganaCourts(_, _, _)
TelanganaCourts(row, i, idx) ==
    IF idx >= row.cells THEN <<>>
    ELSE IF HasCourtLink(row, idx)
         THEN LET cells_consumed == IF idx + 1 < row.cells THEN 4 ELSE 1
              IN <<CourtRecord(i, idx, extract_cell_text(row, idx))>>
                 \o TelanganaCourts(row, i, idx + cells_consumed)
         ELSE TelanganaCourts(row, i, idx + 1)

\* andhrapradesh: the same walk, each cell inside try/except: a cell that
\* raises is stepped over, a link in the last cell gives no record.
RECURSIVE AndhraCourts(_, _, _)
AndhraCourts(row, i, idx) ==
    IF idx >= row.cells THEN <<>>
    ELSE IF Stale(row, idx) THEN AndhraCourts(row, i, idx + 1)
    ELSE IF HasCourtLink(row, idx) /\ idx + 1 < row.cells
         THEN <<CourtRecord(i, idx, extract_cell_text(row, idx))>>
              \o AndhraCourts(row, i, idx + 4)
         ELSE AndhraCourts(row, i, idx + 1)

\* One iteration of the loop over the rows: the records it appends, or the
\* exception it lets out of the loop.
ProcessRow(v, row, i) ==
    CASE v = "allahabad" ->
            \* the whole body is in try/except ... continue
            IF row.fault = "find_elements" \/ row.cells < 5
            THEN [raised |-> FALSE, recs |-> <<>>]
            ELSE [raised |-> FALSE,
                  recs |-> <<CourtRecord(i, 0, extract_cell_text(row, 0))>>]
      [] v = "telangana" ->
            \* no try/except in the loop
            IF row.fault = "find_elements"
            THEN [raised |-> TRUE, recs |-> <<>>]
            ELSE [raised |-> FALSE,
                  recs |-> IF row.cells >= 4 THEN TelanganaCourts(row, i, 0)
                           ELSE <<>>]
      [] v = "andhrapradesh" ->
            \* row.find_elements is outside the try/except
            IF row.fault = "find_elements"
            THEN [raised |-> TRUE, recs |-> <<>>]
            ELSE [raised |-> FALSE,
                  recs |-> IF row.cells < 4 THEN <<>>
                           ELSE AndhraCourts(row, i, 0)]

ExtractInit ==
    /\ xvariant \in ExtractVariants
    /\ xrows \in SeqUpTo(TableRows, MaxRows)
    /\ xidx = 1
    /\ all_courts_data = <<>>
    /\ xpc = "loop"
    /\ xresult = <<>>
    /\ current_court = 0

\* The loop body ran for row xidx and the loop goes on.
ExtractRow ==
    /\ xpc = "loop" /\ xidx <= Len(xrows)
    /\ LET r == ProcessRow(xvariant, xrows[xidx], xidx)
       IN /\ ~r.raised
          /\ all_courts_data' = all_courts_data \o r.recs
    /\ xidx' = xidx + 1
    /\ UNCHANGED <<xvariant, xrows, xpc, xresult, current_court>>
    /\ UNCHANGED <<driverVars, normVars, sinkVars, ingestVars, mainVars,
                   fixtureVars,
                   captchaVars>>

\* The loop body raised: the function's outer except returns [].
ExtractAbort ==
    /\ xpc = "loop" /\ xidx <= Len(xrows)
    /\ ProcessRow(xvariant, xrows[xidx], xidx).raised
    /\ xpc' = "returned"
    /\ xresult' = <<>>
    /\ UNCHANGED <<xvariant, xrows, xidx, all_courts_data, current_court>>
    /\ UNCHANGED <<driverVars, normVars, sinkVars, ingestVars, mainVars,
                   fixtureVars,
                   captchaVars>>

\* The loop is over: return all_courts_data.
ExtractReturn ==
    /\ xpc = "loop" /\ xidx > Len(xrows)
    /\ xpc' = "returned"
    /\ xresult' = all_courts_data
    /\ UNCHANGED <<xvariant, xrows, xidx, all_courts_data, current_court>>
    /\ UNCHANGED <<driverVars, normVars, sinkVars, ingestVars, mainVars,
                   fixtureVars,
                   captchaVars>>

ExtractNext == ExtractRow \/ ExtractAbort \/ ExtractReturn

\* C5: when scrape_display_board has returned, every row that was read
\* without an exception has all its records in the returned list, whatever
\* happened while the other rows were read.
C5_RowFaultSkipsOnlyThatRow ==
    xpc = "returned" =>
        \A i \in 1..Len(xrows) :
            xrows[i].fault = "none" =>
                LET recs == ProcessRow(xvariant, xrows[i], i).recs
                IN \A k \in 1..Len(recs) :
                      \E j \in 1..Len(xresult) : xresult[j] = recs[k]

(* -------------------------- field normalizers ------------------------- *)
\* Characters: a letter, two digits, the separators, a blank, a dot.
Digits == {"1", "2"}
Letters == {"A"}
Alphabet == Letters \cup Digits \cup {"/", "-", " "}
Strings == SeqUpTo(Alphabet, MaxLen)

\* Python values a normalizer can be handed or can return: a str (its
\* characters in s), None, an int (in n) or a list of ints (in l).
StrValue(chars) == [t |-> "str", s |-> chars, l |-> <<>>, n |-> 0]
NoneValue == [t |-> "none", s |-> <<>>, l |-> <<>>, n |-> 0]
IntValue(k) == [t |-> "int", s |-> <<>>, l |-> <<>>, n |-> k]
ListValue(elems) == [t |-> "list", s |-> <<>>, l |-> elems, n |-> 0]
NonStrings == {NoneValue, IntValue(0), IntValue(5), ListValue(<<>>), ListValue(<<7>>)}
NormInputs == {StrValue(chars) : chars \in Strings} \cup NonStrings

\* "not v"
Falsy(v) ==
    \/ v.t = "none"
    \/ v.t = "str" /\ v.s = <<>>
    \/ v.t = "int" /\ v.n = 0
    \/ v.t = "list" /\ v.l = <<>>

\* What a call does: return a tuple of values, or raise.
Returned(vals) == [raised |-> FALSE, ret |-> vals]
Raised == [raised |-> TRUE, ret |-> <<>>]

\* try: body / except: return default, without the try.
Unguarded(body, default) == body

\* try: body / except: return default
TryExcept(body, default) == IF body.raised THEN Returned(default) ELSE body

IsDigit(c) == c \in Digits
\* \w
IsWord(c) == c \in Digits \cup Letters
At(str, i, c) == i >= 1 /\ i <= Len(str) /\ str[i] = c

\* \s* from position i: the position after the blanks.
RECURSIVE SkipSpaces(_, _)
SkipSpaces(str, i) ==
    IF i <= Len(str) /\ str[i] = " " THEN SkipSpaces(str, i + 1) ELSE i

\* \d+ matching one digit only.
SkipOneDigit(str, i) == IF i <= Len(str) /\ IsDigit(str[i]) THEN i + 1 ELSE i

\* \d+ from position i (greedy): the position after the digits.
RECURSIVE SkipDigits(_, _)
SkipDigits(str, i) ==
    IF i <= Len(str) /\ IsDigit(str[i]) THEN SkipDigits(str, i + 1) ELSE i

\* str.strip()
RECURSIVE lstrip(_)
lstrip(str) == IF str # <<>> /\ Head(str) = " " THEN lstrip(Tail(str)) ELSE str
RECURSIVE rstrip(_)
rstrip(str) ==
    IF str # <<>> /\ str[Len(str)] = " "
    THEN rstrip(SubSeq(str, 1, Len(str) - 1)) ELSE str
strip(str) == rstrip(lstrip(str))

\* A match object (found, group(1), group(2)), or no match.
NoMatch == [found |-> FALSE, g1 |-> <<>>, g2 |-> <<>>]
Match(a, b) == [found |-> TRUE, g1 |-> a, g2 |-> b]

\* r'/(\d+)/' at position p
SlashDigitsSlash(str, p) ==
    LET e == SkipDigits(str, p + 1)
    IN IF str[p] = "/" /\ e > p + 1 /\ At(str, e, "/")
       THEN Match(SubSeq(str, p + 1, e - 1), <<>>) ELSE NoMatch

\* r'/(\d+)' at position p
SlashDigits(str, p) ==
    LET e == SkipDigits(str, p + 1)
    IN IF str[p] = "/" /\ e > p + 1
       THEN Match(SubSeq(str, p + 1, e - 1), <<>>) ELSE NoMatch

\* r'-\s*(\d+)\s*/' at position p
DashDigitsSlash(str, p) ==
    LET b == SkipSpaces(str, p + 1)
        e == SkipDigits(str, b)
        f == SkipSpaces(str, e)
    IN IF str[p] = "-" /\ e > b /\ At(str, f, "/")
       THEN Match(SubSeq(str, b, e - 1), <<>>) ELSE NoMatch

\* r'\.?(\d+)/' at position p
DotDigitsSlash(str, p) ==
    LET b == IF str[p] = "." THEN p + 1 ELSE p
        e == SkipDigits(str, b)
    IN IF e > b /\ At(str, e, "/")
       THEN Match(SubSeq(str, b, e - 1), <<>>) ELSE NoMatch

\* r'\b(\d+)\b' at position p
WordDigits(str, p) ==
    LET e == SkipDigits(str, p)
    IN IF /\ e > p
          /\ (p = 1 \/ ~IsWord(str[p - 1]))
          /\ (e > Len(str) \/ ~IsWord(str[e]))
       THEN Match(SubSeq(str, p, e - 1), <<>>) ELSE NoMatch

\* r'(\d+)-(\d+)' at position p
DigitsDashDigits(str, p) ==
    LET e == SkipDigits(str, p)
        f == SkipDigits(str, e + 1)
    IN IF e > p /\ At(str, e, "-") /\ f > e + 1
       THEN Match(SubSeq(str, p, e - 1), SubSeq(str, e + 1, f - 1))
       ELSE NoMatch

\* The pattern of that name, tried at position p.
MatchAt(pattern, str, p) ==
    CASE pattern = "/(d+)/" -> SlashDigitsSlash(str, p)
      [] pattern = "/(d+)" -> SlashDigits(str, p)
      [] pattern = "-s*(d+)s*/" -> DashDigitsSlash(str, p)
      [] pattern = ".?(d+)/" -> DotDigitsSlash(str, p)
      [] pattern = "b(d+)b" -> WordDigits(str, p)
      [] pattern = "(d+)-(d+)" -> DigitsDashDigits(str, p)

\* re.search: the match at the leftmost position where the pattern matches.
re_search(pattern, str) ==
    IF \E p \in 1..Len(str) : MatchAt(pattern, str, p).found
    THEN MatchAt(pattern, str,
                 CHOOSE p \in 1..Len(str) :
                    /\ MatchAt(pattern, str, p).found
                    /\ \A q \in 1..(p - 1) : ~MatchAt(pattern, str, q).found)
    ELSE NoMatch

\* The try-body shared by the three extract_case_number_numeric functions,
\* which differ in their two patterns only.
CaseNumberBody(Primary, Fallback, case_full) ==
    IF Falsy(case_full) THEN Returned(<<StrValue(<<>>)>>)
    ELSE IF case_full.t # "str" THEN Raised   \* .strip(): AttributeError
    ELSE IF strip(case_full.s) = <<>> THEN Returned(<<StrValue(<<>>)>>)
    ELSE LET match == re_search(Primary, case_full.s)
             fallback == re_search(Fallback, case_full.s)
         IN IF match.found THEN Returned(<<StrValue(strip(match.g1))>>)
            ELSE IF fallback.found
                 THEN Returned(<<StrValue(strip(fallback.g1))>>)
                 ELSE Returned(<<StrValue(<<>>)>>)

PortBlair_extract_case_number_numeric(case_full) ==
    TryExcept(CaseNumberBody("/(d+)/", "/(d+)", case_full),
              <<StrValue(<<>>)>>)

delhi_extract_case_number_numeric(case_full) ==
    TryExcept(CaseNumberBody("-s*(d+)s*/", "b(d+)b", case_full),
              <<StrValue(<<>>)>>)

madras_extract_case_number_numeric(case_full) ==
    TryExcept(CaseNumberBody(".?(d+)/", "b(d+)b", case_full),
              <<StrValue(<<>>)>>)

\* int() of a run of digits
DigitValue(c) == IF c = "1" THEN 1 ELSE 2
RECURSIVE int(_)
int(d) ==
    IF d = <<>> THEN 0
    ELSE 10 * int(SubSeq(d, 1, Len(d) - 1)) + DigitValue(d[Len(d)])

\* list(range(start, end))
range_exclusive(start, end) ==
    IF end > start THEN [k \in 1..(end - start) |-> start + k - 1] ELSE <<>>

\* list(range(start, end + 1))
range_inclusive(start, end) ==
    IF end >= start THEN [k \in 1..(end - start + 1) |-> start + k - 1]
    ELSE <<>>

SerialRangeBody(serial_str) ==
    IF Falsy(serial_str) THEN Returned(<<ListValue(<<>>)>>)
    ELSE IF serial_str.t # "str" THEN Raised   \* .strip(): AttributeError
    ELSE IF strip(serial_str.s) = <<>> THEN Returned(<<ListValue(<<>>)>>)
    ELSE LET range_match == re_search("(d+)-(d+)", serial_str.s)
             single_match == re_search("b(d+)b", serial_str.s)
         IN IF range_match.found
            THEN Returned(<<ListValue(range_inclusive(int(range_match.g1),
                                                      int(range_match.g2)))>>)
            ELSE IF single_match.found
                 THEN Returned(<<ListValue(<<int(single_match.g1)>>)>>)
                 ELSE Returned(<<ListValue(<<>>)>>)

extract_serial_number_range(serial_str) ==
    TryExcept(SerialRangeBody(serial_str), <<ListValue(<<>>)>>)

NOT_IN_SESSION ==
    <<"N", "O", "T", " ", "I", "N", " ", "S", "E", "S", "S", "I", "O", "N">>

\* Where ' - ' first occurs in str, 0 if nowhere.
FindSeparator(str) ==
    LET Here(p) == str[p] = " " /\ str[p + 1] = "-" /\ str[p + 2] = " "
        At3 == {p \in 1..(Len(str) - 2) : Here(p)}
    IN IF At3 = {} THEN 0 ELSE CHOOSE p \in At3 : \A q \in At3 : p <= q

CaseInfoBody(case_text) ==
    IF case_text.t # "str"
    THEN Raised     \* ' - ' in case_text: TypeError; [..].strip(): AttributeError
    ELSE LET p == FindSeparator(case_text.s)
             n == Len(case_text.s)
         IN IF p > 0
            THEN Returned(<<StrValue(strip(SubSeq(case_text.s, 1, p - 1))),
                            StrValue(strip(SubSeq(case_text.s, p + 3, n)))>>)
            ELSE Returned(<<StrValue(<<>>), StrValue(strip(case_text.s))>>)

extract_case_info(case_text) ==
    IF Falsy(case_text) \/ case_text = StrValue(NOT_IN_SESSION)
    THEN Returned(<<StrValue(<<>>), StrValue(<<>>)>>)
    ELSE TryExcept(CaseInfoBody(case_text), <<StrValue(<<>>), case_text>>)

NoOutput == Returned(<<>>)

NormInit ==
    /\ nin \in NormInputs
    /\ nfn = "ready"
    /\ nout = NoOutput

Apply(fn, out) ==
    /\ nfn = "ready"
    /\ nfn' = fn
    /\ nout' = out
    /\ UNCHANGED nin
    /\ UNCHANGED <<driverVars, extractVars, sinkVars, ingestVars, mainVars,
                   fixtureVars,
                   captchaVars>>

NormPortBlairCase ==
    Apply("PortBlair", PortBlair_extract_case_number_numeric(nin))
NormDelhiCase == Apply("delhi", delhi_extract_case_number_numeric(nin))
NormMadrasCase == Apply("madras", madras_extract_case_number_numeric(nin))
NormSerialRange == Apply("serial", extract_serial_number_range(nin))
NormCaseInfo == Apply("patna", extract_case_info(nin))

NormNext ==
    \/ NormPortBlairCase
    \/ NormDelhiCase
    \/ NormMadrasCase
    \/ NormSerialRange
    \/ NormCaseInfo

(* ------------------- the ingestion step of one cycle ------------------ *)
\* The scripts whose ingestion step is modelled.
IngestVariants == {"allahabad", "patna"}

\* How the endpoint can answer one POST: an HTTP response (its status, and
\* whether its body is JSON), or requests.post raising.
Statuses == {200, 201, 500}
Answers ==
    [kind : {"response"}, status : Statuses, json : BOOLEAN]
    \cup [kind : {"Timeout", "ConnectionError", "Exception"},
          status : {0}, json : {FALSE}]
NoAnswer == [kind |-> "none", status |-> 0, json |-> FALSE]

\* What post_court_data_to_api does: return (ok, msg), or raise exc.
PostReturn(ok, msg) == [exc |-> "none", ok |-> ok, msg |-> msg]
PostRaise(exc) == [exc |-> exc, ok |-> FALSE, msg |-> ""]
NoReturn == PostReturn(FALSE, "")

\* The try-body of post_court_data_to_api.
PostBody(answer) ==
    IF answer.kind = "response"
    THEN IF answer.status \in {200, 201}
         THEN IF answer.json
              THEN PostReturn(TRUE, "response.json()")
              ELSE PostRaise("JSONDecodeError")    \* response.json() raises
         ELSE PostReturn(FALSE, "API Error")
    ELSE PostRaise(answer.kind)

\* The function without its except clauses.
PostUncaught(body) == body

\* except Timeout / except ConnectionError / except Exception
PostExcept(body) ==
    CASE body.exc = "none" -> body
      [] body.exc = "Timeout" -> PostReturn(FALSE, "Request timeout")
      [] body.exc = "ConnectionError" -> PostReturn(FALSE, "Connection error")
      [] OTHER -> PostReturn(FALSE, "Error")

post_court_data_to_api(answer) == PostExcept(PostBody(answer))

\* api_result = None, and the dict post_all_courts_to_api returns
NoApiResult == [total |-> 0, successful |-> 0, failed |-> 0, errors |-> <<>>,
                none |-> TRUE]
ApiResult(t, s, f, e) == [total |-> t, successful |-> s, failed |-> f,
                          errors |-> e, none |-> FALSE]

\* How many times main() calls post_all_courts_to_api in one cycle: patna's
\* main() has the block "if ENABLE_API_POSTING: api_result = ..." twice.
CallsPerCycle == IF ivariant = "patna" THEN 2 ELSE 1

\* for idx, court_data in enumerate(courts_data_list, 1): the next record.
NextIndex(idx, success) == idx + 1

\* {"court": court_no, "case": case_no, "error": response}: the entry of
\* the idx-th record of the batch, whose court and case stand for it.
ErrorEntry(idx, response) == [court |-> idx, case |-> idx, error |-> response]

ErrorsNewestFirst(errs, success, entry) ==
    IF success THEN errs ELSE <<entry>> \o errs

\* else: failed_posts += 1; errors.append({...})
ErrorsAfter(errs, success, entry) ==
    IF success THEN errs ELSE Append(errs, entry)

IngestInit ==
    /\ ivariant \in IngestVariants
    /\ ienabled \in BOOLEAN
    /\ ibatch \in 1..MaxRecs      \* main() calls it under "if courts_data:"
    /\ ipc = "main"
    /\ icalls = 0
    /\ iidx = 0
    /\ successful_posts = 0
    /\ failed_posts = 0
    /\ errors = <<>>
    /\ ianswer = NoAnswer
    /\ ireturn = NoReturn
    /\ iattempts = <<>>
    /\ iresult = NoApiResult
    /\ ifailed = <<>>

\* main(): if ENABLE_API_POSTING: api_result = post_all_courts_to_api(...)
IngestCall ==
    /\ ipc = "main" /\ icalls < CallsPerCycle
    /\ icalls' = icalls + 1
    /\ IF ienabled
       THEN /\ ipc' = "loop"
            /\ iidx' = 1
            /\ successful_posts' = 0
            /\ failed_posts' = 0
            /\ errors' = <<>>
            /\ ifailed' = <<>>
       ELSE UNCHANGED <<ipc, iidx, successful_posts, failed_posts, errors,
                        ifailed>>
    /\ UNCHANGED <<ivariant, ienabled, ibatch, ianswer, ireturn, iattempts,
                   iresult>>
    /\ UNCHANGED <<driverVars, normVars, extractVars, sinkVars, mainVars,
                   fixtureVars,
                   captchaVars>>

\* One iteration of the loop of post_all_courts_to_api.
PostOne ==
    /\ ipc = "loop" /\ iidx <= ibatch
    /\ \E answer \in Answers :
          LET r == post_court_data_to_api(answer)
          IN /\ ianswer' = answer
             /\ ireturn' = r
             /\ iattempts' = Append(iattempts, iidx)
             /\ IF r.exc # "none"
                THEN /\ ipc' = "raised"
                     /\ UNCHANGED <<iidx, successful_posts, failed_posts,
                                    errors, ifailed>>
                ELSE /\ ipc' = "loop"
                     /\ iidx' = NextIndex(iidx, r.ok)
                     /\ successful_posts' =
                           IF r.ok THEN successful_posts + 1
                           ELSE successful_posts
                     /\ failed_posts' =
                           IF r.ok THEN failed_posts ELSE failed_posts + 1
                     /\ errors' = ErrorsAfter(errors, r.ok,
                                              ErrorEntry(iidx, r.msg))
                     /\ ifailed' = IF r.ok THEN ifailed
                                   ELSE Append(ifailed, iidx)
    /\ UNCHANGED <<ivariant, ienabled, ibatch, icalls, iresult>>
    /\ UNCHANGED <<driverVars, normVars, extractVars, sinkVars, mainVars,
                   fixtureVars,
                   captchaVars>>

\* The loop is over: return the counts.
IngestReturn ==
    /\ ipc = "loop" /\ iidx > ibatch
    /\ iresult' = ApiResult(ibatch, successful_posts, failed_posts, errors)
    /\ ipc' = "main"
    /\ UNCHANGED <<ivariant, ienabled, ibatch, icalls, iidx, successful_posts,
                   failed_posts, errors, ianswer, ireturn, iattempts,
                   ifailed>>
    /\ UNCHANGED <<driverVars, normVars, extractVars, sinkVars, mainVars,
                   fixtureVars,
                   captchaVars>>

IngestNext == IngestCall \/ PostOne \/ IngestReturn

(* ------------- rows that pack several courts -------------------------- *)
\* The walk over the cells of one row in the Telangana, Andhra Pradesh and
\* Patna scripts.  A cell is a court-number cell ("court"), a cell of plain
\* text ("text"), a cell reading "Court Session Ended" ("ended", Telangana)
\* or a status cell with colspan >= 3 ("merged", Andhra Pradesh).
PackedVariants == {"telangana", "andhrapradesh", "patna"}

\* The groups of cells a court takes in a row of each board.
Groups(v) ==
    CASE v = "telangana" ->
            {<<"court", "text", "text", "text">>, <<"court", "ended">>,
             <<"court", "ended", "text", "text">>}
      [] v = "andhrapradesh" ->
            {<<"court", "text", "text", "text">>, <<"court", "merged">>}
      [] v = "patna" -> {<<"court", "text">>}

RECURSIVE Concat(_)
Concat(groups) ==
    IF groups = <<>> THEN <<>> ELSE Head(groups) \o Concat(Tail(groups))

\* Rows of two or more courts; the Patna table has four columns.
PackedRows(v) ==
    {Concat(g) : g \in UNION {[1..k -> Groups(v)] :
                       k \in 2..(IF v = "patna" THEN 2 ELSE MaxCourts)}}

\* cells[idx], idx counted from 0 as in the scripts.
Cell(cells, idx) == cells[idx + 1]

GroupOfFour(v, cells, idx) ==
    [fields |-> SelectSeq(<<idx + 1, idx + 2, idx + 3>>,
                          LAMBDA k : k < Len(cells)),
     consumed |-> 4, record |-> TRUE]

\* At a court-number cell: the cells read into the court's record, how far
\* idx moves, and whether a record is appended.
GroupAt(v, cells, idx) ==
    LET n == Len(cells)
    IN CASE v = "telangana" ->
              IF idx + 1 < n
              THEN IF Cell(cells, idx + 1) = "ended"
                   THEN IF idx + 2 < n /\ Cell(cells, idx + 2) # "court"
                           /\ idx + 3 < n
                        THEN [fields |-> <<idx + 1, idx + 2, idx + 3>>,
                              consumed |-> 4, record |-> TRUE]
                        ELSE [fields |-> <<idx + 1>>, consumed |-> 2,
                              record |-> TRUE]
                   ELSE GroupOfFour(v, cells, idx)
              ELSE [fields |-> <<>>, consumed |-> 1, record |-> TRUE]
         [] v = "andhrapradesh" ->
              IF idx + 1 < n
              THEN IF Cell(cells, idx + 1) = "merged"
                   THEN [fields |-> <<idx + 1>>, consumed |-> 2,
                         record |-> TRUE]
                   ELSE GroupOfFour(v, cells, idx)
              ELSE [fields |-> <<>>, consumed |-> 1, record |-> FALSE]
         [] v = "patna" ->
              \* columns 0 and 1, columns 2 and 3
              [fields |-> <<idx + 1>>, consumed |-> 2, record |-> TRUE]

PackedRecord(i, idx, fields) == [row |-> i, court |-> idx, fields |-> fields]

\* while idx < len(cells): ... (Patna: the two fixed pairs of columns).
RECURSIVE PackedCourts(_, _, _, _)
PackedCourts(v, cells, i, idx) ==
    IF idx >= Len(cells) \/ (v = "patna" /\ idx >= 4) THEN <<>>
    ELSE IF v = "patna" /\ idx + 1 >= Len(cells) THEN <<>>
    ELSE IF Cell(cells, idx) = "court"
         THEN LET g == GroupAt(v, cells, idx)
              IN (IF g.record THEN <<PackedRecord(i, idx, g.fields)>>
                  ELSE <<>>)
                 \o PackedCourts(v, cells, i, idx + g.consumed)
         ELSE PackedCourts(v, cells, i, idx + (IF v = "patna" THEN 2 ELSE 1))

\* The arity test at the head of the loop body, then the walk.
RowCourts(v, cells, i) ==
    IF Len(cells) < (IF v = "patna" THEN 2 ELSE 4) THEN <<>>
    ELSE PackedCourts(v, cells, i, 0)

PackedInit ==
    /\ xvariant \in PackedVariants
    /\ xrows \in [1..1 -> PackedRows(xvariant)] \cup [1..2 -> PackedRows(xvariant)]
    /\ xidx = 1
    /\ all_courts_data = <<>>
    /\ xpc = "loop"
    /\ xresult = <<>>
    /\ current_court = 0

\* One iteration of the loop over the rows.
PackedRow ==
    /\ xpc = "loop" /\ xidx <= Len(xrows)
    /\ all_courts_data' =
          all_courts_data \o RowCourts(xvariant, xrows[xidx], xidx)
    /\ xidx' = xidx + 1
    /\ UNCHANGED <<xvariant, xrows, xpc, xresult, current_court>>
    /\ UNCHANGED <<driverVars, normVars, sinkVars, ingestVars, mainVars,
                   fixtureVars,
                   captchaVars>>

\* return all_courts_data
PackedReturn ==
    /\ xpc = "loop" /\ xidx > Len(xrows)
    /\ xpc' = "returned"
    /\ xresult' = all_courts_data
    /\ UNCHANGED <<xvariant, xrows, xidx, all_courts_data, current_court>>
    /\ UNCHANGED <<driverVars, normVars, sinkVars, ingestVars, mainVars,
                   fixtureVars,
                   captchaVars>>

PackedNext == PackedRow \/ PackedReturn

(* ----------------- the save section of one cycle of main() ------------- *)
SaveVariants == {"telangana", "patna"}

\* The calls of save_to_excel(courts_data, excel_path, ...) under
\* "if courts_data:" in one iteration of main().
SavesPerCycle(v) == IF v = "patna" THEN 2 ELSE 1

\* The calls one after the other on the same day-file; calls holds what each
\* returned, the last of which main() keeps as its success flag.
RECURSIVE SaveSection(_, _, _, _)
SaveSection(n, data, file, io_errors) ==
    IF n = 0 THEN [file |-> file, calls |-> <<>>]
    ELSE LET r == save_to_excel(data, file, Head(io_errors))
             rest == SaveSection(n - 1, data, r.file, Tail(io_errors))
         IN [file |-> rest.file, calls |-> <<r.ok>> \o rest.calls]

CycleInit ==
    /\ sfile0 \in {NoFile} \cup
                  {[exists |-> TRUE, rows |-> r] :
                      r \in SeqUpTo({Record(t) : t \in StoredTexts}, MaxRecs)}
    /\ sdata \in SeqUpTo({Record(t) : t \in ScrapedTexts}, MaxRecs)
    /\ sfile = sfile0
    /\ scalls = <<>>
    /\ scrash = "none"
    /\ sbk = <<>>
    /\ sbackups = <<>>
    /\ slast_backup_cycle = 0
    /\ svariant \in SaveVariants

\* if courts_data: the save section, once.
CycleSave ==
    /\ svariant \in SaveVariants /\ scalls = <<>> /\ sdata # <<>>
    /\ \E io_errors \in [1..SavesPerCycle(svariant) -> BOOLEAN] :
          LET r == SaveSection(SavesPerCycle(svariant), sdata, sfile, io_errors)
          IN /\ sfile' = r.file
             /\ scalls' = r.calls
    /\ UNCHANGED <<sfile0, sdata, scrash, sbk, sbackups, slast_backup_cycle,
                   svariant>>
    /\ UNCHANGED <<driverVars, normVars, extractVars, ingestVars, mainVars,
                   fixtureVars,
                   captchaVars>>

CycleNext == CycleSave

(* ------------- rows that omit a rowspanned court cell ----------------- *)
\* The Chhattisgarh board: Court | List Type | Round | SNo | Case No |
\* Purpose, the Court cell spanning the rows of its court; marquee rows of
\* one cell in between.  A court is a block of rows: perhaps a marquee row,
\* the row with the Court cell (six cells), the rows without it (five).
CourtBlocks == [span : 1..MaxSpan, marquee : BOOLEAN]

\* rowspan 0 stands for a first cell that has no rowspan of its own.
BlockRows(b, id) ==
    (IF b.marquee THEN <<[cells |-> 1, rowspan |-> 0, court |-> 0]>> ELSE <<>>)
    \o <<[cells |-> 6, rowspan |-> b.span, court |-> id]>>
    \o [j \in 1..(b.span - 1) |-> [cells |-> 5, rowspan |-> 0, court |-> id]]

RECURSIVE TableOf(_, _)
TableOf(blocks, id) ==
    IF blocks = <<>> THEN <<>>
    ELSE BlockRows(Head(blocks), id) \o TableOf(Tail(blocks), id + 1)

\* if rowspan_attr and int(rowspan_attr) > 1: the row has the Court cell.
HasCourtCell(row) == row.rowspan > 1

\* One iteration of "while i < len(rows)": current_court afterwards and the
\* record appended; case_at is the index of the cell read as the case.
CarryForwardRow(row, i, court) ==
    IF row.cells = 1 \/ row.cells < 5
    THEN [court |-> court, recs |-> <<>>]
    ELSE IF HasCourtCell(row)
         THEN [court |-> row.court,
               recs |-> <<[row |-> i, court |-> row.court, case_at |-> 4]>>]
         ELSE [court |-> court,
               recs |-> <<[row |-> i, court |-> court, case_at |-> 3]>>]

CarryInit ==
    /\ xvariant = "chattisgarh"
    /\ xrows \in {TableOf(b, 1) :
                    b \in UNION {[1..k -> CourtBlocks] : k \in 1..MaxCourts}}
    /\ xidx = 1
    /\ all_courts_data = <<>>
    /\ xpc = "loop"
    /\ xresult = <<>>
    /\ current_court = 0

CarryRow ==
    /\ xpc = "loop" /\ xidx <= Len(xrows)
    /\ LET r == CarryForwardRow(xrows[xidx], xidx, current_court)
       IN /\ current_court' = r.court
          /\ all_courts_data' = all_courts_data \o r.recs
    /\ xidx' = xidx + 1
    /\ UNCHANGED <<xvariant, xrows, xpc, xresult>>
    /\ UNCHANGED <<driverVars, normVars, sinkVars, ingestVars, mainVars,
                   fixtureVars,
                   captchaVars>>

\* return all_courts_data
CarryReturn ==
    /\ xpc = "loop" /\ xidx > Len(xrows)
    /\ xpc' = "returned"
    /\ xresult' = all_courts_data
    /\ UNCHANGED <<xvariant, xrows, xidx, all_courts_data, current_court>>
    /\ UNCHANGED <<driverVars, normVars, sinkVars, ingestVars, mainVars,
                   fixtureVars,
                   captchaVars>>

CarryNext == CarryRow \/ CarryReturn

(* ------------------ Port Blair: the CAPTCHA before the loop ------------ *)
\* What driver.find_element(By.ID, "captcha_div") and its style attribute
\* give: the div hidden (the CAPTCHA was accepted), still shown, or an
\* exception of the browser.
CaptchaLooks == {"hidden", "shown", "raised"}

\* The seconds a call to the browser takes, rounded down.
FindSeconds == 0..MaxFind

\* try_auto_captcha(driver): True only if the div is hidden after the OCR
\* text was entered; every failure and exception returns False.
try_auto_captcha(look) == AUTO_CAPTCHA_ENABLED /\ look = "hidden"

WaitsOneMoreSecond(elapsed) == elapsed <= MANUAL_CAPTCHA_TIMEOUT

\* while time.time() - start_time < MANUAL_CAPTCHA_TIMEOUT
ManualWaitGoesOn(elapsed) == elapsed < MANUAL_CAPTCHA_TIMEOUT

CaptchaInit ==
    /\ c_pc = "get"
    /\ c_driver = "open"
    /\ c_auto_tries = 0
    /\ c_manual = FALSE
    /\ c_elapsed = 0
    /\ c_result = "none"
    /\ c_cycles = 0
    /\ c_written = 0

\* driver.get(URL); time.sleep(3): outside every try.
CaptchaGet ==
    /\ c_pc = "get"
    /\ \E loaded \in BOOLEAN :
          c_pc' = IF loaded THEN "auto" ELSE "ended"
    /\ UNCHANGED <<c_driver, c_auto_tries, c_manual, c_elapsed, c_result,
                   c_cycles, c_written>>
    /\ UNCHANGED <<driverVars, normVars, extractVars, sinkVars, ingestVars,
                   mainVars, fixtureVars>>

\* validate_captcha: if try_auto_captcha(driver): return True; otherwise
\* handle_manual_captcha starts its clock.
CaptchaAuto ==
    /\ c_pc = "auto"
    /\ c_auto_tries' = c_auto_tries + 1
    /\ \E look \in CaptchaLooks :
          IF try_auto_captcha(look)
          THEN /\ c_result' = "true"
               /\ c_pc' = "decide"
               /\ UNCHANGED <<c_manual, c_elapsed>>
          ELSE /\ c_manual' = TRUE
               /\ c_elapsed' = 0
               /\ c_pc' = "manual"
               /\ UNCHANGED c_result
    /\ UNCHANGED <<c_driver, c_cycles, c_written>>
    /\ UNCHANGED <<driverVars, normVars, extractVars, sinkVars, ingestVars,
                   mainVars, fixtureVars>>

\* One iteration of the while loop of handle_manual_captcha: the div is
\* hidden (return True), shown (time.sleep(1)) or the browser raises
\* (continue).
CaptchaPoll ==
    /\ c_pc = "manual" /\ ManualWaitGoesOn(c_elapsed)
    /\ \E look \in CaptchaLooks, d \in FindSeconds :
          CASE look = "hidden" ->
                 /\ c_elapsed' = c_elapsed + d
                 /\ c_result' = "true"
                 /\ c_pc' = "decide"
            [] look = "shown" ->
                 /\ c_elapsed' = c_elapsed + d + 1
                 /\ UNCHANGED <<c_result, c_pc>>
            [] OTHER ->
                 /\ c_elapsed' = c_elapsed + d
                 /\ UNCHANGED <<c_result, c_pc>>
    /\ UNCHANGED <<c_driver, c_auto_tries, c_manual, c_cycles, c_written>>
    /\ UNCHANGED <<driverVars, normVars, extractVars, sinkVars, ingestVars,
                   mainVars, fixtureVars>>

\* The while condition is false: print the timeout, return False.
CaptchaTimeout ==
    /\ c_pc = "manual" /\ ~ManualWaitGoesOn(c_elapsed)
    /\ c_result' = "false"
    /\ c_pc' = "decide"
    /\ UNCHANGED <<c_driver, c_auto_tries, c_manual, c_elapsed, c_cycles,
                   c_written>>
    /\ UNCHANGED <<driverVars, normVars, extractVars, sinkVars, ingestVars,
                   mainVars, fixtureVars>>

\* if not validate_captcha(driver): driver.quit(); return -- else on to the
\* loop.
CaptchaDecide ==
    /\ c_pc = "decide"
    /\ IF c_result = "true"
       THEN c_pc' = "loop" /\ UNCHANGED c_driver
       ELSE c_pc' = "ended" /\ c_driver' = "quit"
    /\ UNCHANGED <<c_auto_tries, c_manual, c_elapsed, c_result, c_cycles,
                   c_written>>
    /\ UNCHANGED <<driverVars, normVars, extractVars, sinkVars, ingestVars,
                   mainVars, fixtureVars>>

\* One iteration of "while True": scrape, and with records save and post.
CaptchaCycle ==
    /\ c_pc = "loop" /\ c_cycles < MaxCycles
    /\ c_cycles' = c_cycles + 1
    /\ \E n \in 0..MaxRecs :
          c_written' = IF n > 0 THEN c_written + 1 ELSE c_written
    /\ UNCHANGED <<c_pc, c_driver, c_auto_tries, c_manual, c_elapsed, c_result>>
    /\ UNCHANGED <<driverVars, normVars, extractVars, sinkVars, ingestVars,
                   mainVars, fixtureVars>>

\* Ctrl-C: before the try it ends the script at once; in the loop the
\* finally clause closes the browser first.
CaptchaInterrupt ==
    /\ c_pc \in {"get", "auto", "manual", "decide", "loop"}
    /\ c_pc' = "ended"
    /\ c_driver' = IF c_pc = "loop" THEN "quit" ELSE c_driver
    /\ UNCHANGED <<c_auto_tries, c_manual, c_elapsed, c_result, c_cycles,
                   c_written>>
    /\ UNCHANGED <<driverVars, normVars, extractVars, sinkVars, ingestVars,
                   mainVars, fixtureVars>>

\* The steps of main() up to the loop.
CaptchaStep == CaptchaGet \/ CaptchaAuto \/ CaptchaPoll \/ CaptchaTimeout
               \/ CaptchaDecide

CaptchaNext ==
    \/ CaptchaGet
    \/ CaptchaAuto
    \/ CaptchaPoll
    \/ CaptchaTimeout
    \/ CaptchaDecide
    \/ CaptchaCycle
    \/ CaptchaInterrupt

(* --------------- Port Blair: one row, a range of serials --------------- *)
\* The text of the Serial No cell: empty, without a number, one number, a
\* range, a range that runs backwards.
SerialCells ==
    {<<>>, <<"A">>, <<"A", " ", "1">>, <<"A", " ", "2">>,
     <<"A", " ", "1", "-", "2">>, <<"A", " ", "2", "-", "1">>}

\* The case numbers of the eye button, as split at the commas.
CaseTexts == {<<"A", "/", "1", "/", "2">>, <<"A", "/", "2", "/", "1">>}

RangeRows ==
    [cells : {2, 3}, serial : SerialCells, cases : SeqUpTo(CaseTexts, MaxCases)]

PickOrFirst(list, i) == IF i <= Len(list) THEN list[i] ELSE list[1]

\* if i < len(list): list[i] else: list[-1]   (i counted from 1 here)
PickOrLast(list, i) == IF i <= Len(list) THEN list[i] ELSE list[Len(list)]

\* court_data = {..., "Serial No(s)": ..., "Case Number (Full)": ...,
\*               "Case Number": ...}
RangeRecord(i, serial_no, case_full) ==
    [row |-> i, serial |-> serial_no, case_full |-> case_full,
     case_number |->
        PortBlair_extract_case_number_numeric(StrValue(case_full)).ret[1].s]

NoCaseRecord(i, serial_no) ==
    [row |-> i, serial |-> serial_no, case_full |-> <<>>, case_number |-> <<>>]

\* The body of the loop over the rows, for row i.
RangeRowRecords(row, i) ==
    IF row.cells < 3 THEN <<>>
    ELSE LET serial_numbers ==
                 extract_serial_number_range(StrValue(row.serial)).ret[1].l
             case_numbers == row.cases
             num_records == IF Len(serial_numbers) >= Len(case_numbers)
                            THEN Len(serial_numbers) ELSE Len(case_numbers)
         IN IF case_numbers # <<>> /\ serial_numbers # <<>>
            THEN [k \in 1..num_records |->
                    RangeRecord(i, PickOrLast(serial_numbers, k),
                                PickOrLast(case_numbers, k))]
            ELSE IF serial_numbers # <<>>
                 THEN [k \in 1..Len(serial_numbers) |->
                         NoCaseRecord(i, serial_numbers[k])]
                 ELSE <<>>

RangeInit ==
    /\ xvariant = "PortBlair"
    /\ xrows \in [1..1 -> RangeRows]
    /\ xidx = 1
    /\ all_courts_data = <<>>
    /\ xpc = "loop"
    /\ xresult = <<>>
    /\ current_court = 0

RangeRow ==
    /\ xpc = "loop" /\ xidx <= Len(xrows)
    /\ all_courts_data' = all_courts_data \o RangeRowRecords(xrows[xidx], xidx)
    /\ xidx' = xidx + 1
    /\ UNCHANGED <<xvariant, xrows, xpc, xresult, current_court>>
    /\ UNCHANGED <<driverVars, normVars, sinkVars, ingestVars, mainVars,
                   fixtureVars, captchaVars>>

\* return all_courts_data
RangeReturn ==
    /\ xpc = "loop" /\ xidx > Len(xrows)
    /\ xpc' = "returned"
    /\ xresult' = all_courts_data
    /\ UNCHANGED <<xvariant, xrows, xidx, all_courts_data, current_court>>
    /\ UNCHANGED <<driverVars, normVars, sinkVars, ingestVars, mainVars,
                   fixtureVars, captchaVars>>

RangeNext == RangeRow \/ RangeReturn

(* ---------------- main(): the life of the process --------------------- *)
\* The control flow of main() in the Telangana, Jabalpur, Allahabad and
\* Port Blair scripts: the browser, the one-time page interactions, the
\* while-True loop with its steps, the two except clauses and the finally.
MainVariants == {"telangana", "jabalpur", "allahabad", "PortBlair"}

\* The API scripts carry ENABLE_EXCEL_SAVING and ENABLE_API_POSTING and call
\* post_all_courts_to_api; the others always save and never post.
MainHasToggles == m_variant \in {"allahabad", "PortBlair"}

\* Port Blair loads the page and validates the CAPTCHA once, before the loop.
HasInitPage == m_variant = "PortBlair"

\* The row loop of scrape_display_board has its own try/except, except in
\* the Telangana script.
RowGuarded == m_variant # "telangana"

LoopPcs == {"top", "scrape", "save", "post", "backup", "sleep"}

ScrapeFaults == {"none", "timeout", "no_table", "extract"}

ScrapeUnguarded(fault, n) ==
    [raised |-> fault # "none", n |-> n, fetched |-> fault \in {"none", "extract"}]

\* scrape_display_board(driver): the page load, the waits and the table
\* lookup are inside one try whose except returns []; an error in a row is
\* caught there too, or by the row's own try where there is one.
scrape_data(fault, n) ==
    [raised |-> FALSE,
     n |-> CASE fault = "none" -> n
             [] fault = "extract" -> IF RowGuarded THEN n - 1 ELSE 0
             [] OTHER -> 0,
     fetched |-> fault \in {"none", "extract"}]

RestartLoop == "top"

\* After the finally clause main() returns and the script ends.
AfterFinally == "ended"

SkipSleep == "top"

SavesEmptyPage == "save"

\* "else: print(No data scraped)" falls through to time.sleep(SCRAPE_INTERVAL).
AfterNoData == "sleep"

\* Before the first cycle there are no counters to recall.
NoCounters ==
    [cycle_count |-> 0, last_backup_cycle |-> 0, first_cycle |-> TRUE]

MainInit ==
    /\ m_variant \in MainVariants
    /\ m_excel \in (IF MainHasToggles THEN BOOLEAN ELSE {TRUE})
    /\ m_api \in (IF MainHasToggles THEN BOOLEAN ELSE {FALSE})
    /\ m_pc = "launch"
    /\ m_driver = "none"
    /\ m_cycle_count = 0
    /\ m_last_backup_cycle = 0
    /\ m_courts = 0
    /\ m_excel_success = FALSE
    /\ m_trace = <<>>
    /\ m_faults = {}
    /\ m_exit = "none"
    /\ m_cycles = 0
    /\ m_first_cycle = TRUE
    /\ m_owed = "none"
    /\ m_before = NoCounters

\* driver = setup_driver(), before the try: if Chrome does not start the
\* exception ends the script, and no browser was opened.
MainSetupDriver ==
    /\ m_pc = "launch"
    /\ \E started \in BOOLEAN :
          IF started
          THEN /\ m_driver' = "open"
               /\ m_pc' = IF HasInitPage THEN "init" ELSE "top"
               /\ UNCHANGED m_exit
          ELSE /\ m_pc' = "ended"
               /\ m_exit' = "uncaught"
               /\ UNCHANGED m_driver
    /\ UNCHANGED <<m_variant, m_excel, m_api, m_cycle_count,
                   m_last_backup_cycle, m_courts, m_excel_success, m_trace,
                   m_faults, m_cycles,
                   m_first_cycle, m_owed, m_before>>
    /\ UNCHANGED <<driverVars, normVars, extractVars, sinkVars, ingestVars,
                   fixtureVars,
                   captchaVars>>

InitOutcomes == {"ok", "captcha_failed", "raised", "interrupt"}

\* Port Blair, between setup_driver() and the try: driver.get(URL),
\* time.sleep(3), validate_captcha(driver), time.sleep(3).  A failed CAPTCHA
\* quits the browser and returns; an exception of driver.get or a Ctrl-C
\* during the waits is outside every try.
MainInitPage ==
    /\ m_pc = "init"
    /\ \E outcome \in InitOutcomes :
          CASE outcome = "ok" ->
                 /\ m_pc' = "top"
                 /\ UNCHANGED <<m_driver, m_exit>>
            [] outcome = "captcha_failed" ->
                 /\ m_driver' = "quit"
                 /\ m_pc' = "ended"
                 /\ m_exit' = "captcha"
            [] OTHER ->
                 /\ m_pc' = "ended"
                 /\ m_exit' = "uncaught"
                 /\ UNCHANGED m_driver
    /\ UNCHANGED <<m_variant, m_excel, m_api, m_cycle_count,
                   m_last_backup_cycle, m_courts, m_excel_success, m_trace,
                   m_faults, m_cycles,
                   m_first_cycle, m_owed, m_before>>
    /\ UNCHANGED <<driverVars, normVars, extractVars, sinkVars, ingestVars,
                   fixtureVars,
                   captchaVars>>

\* Top of the loop: cycle_count += 1, and on a new day the counters restart.
MainTop ==
    /\ m_pc = "top"
    /\ m_cycles < MaxCycles
    /\ m_cycles' = m_cycles + 1
    /\ \E new_day \in BOOLEAN :
          IF new_day /\ (MainHasToggles => m_excel)
          THEN /\ m_cycle_count' = 1
               /\ m_last_backup_cycle' = 0
               /\ m_first_cycle' = TRUE
               /\ m_owed' = IF m_owed = "failed" THEN "rolled" ELSE m_owed
          ELSE /\ m_cycle_count' = m_cycle_count + 1
               /\ UNCHANGED <<m_last_backup_cycle, m_first_cycle, m_owed>>
    /\ m_before' = [cycle_count |-> m_cycle_count,
                    last_backup_cycle |-> m_last_backup_cycle,
                    first_cycle |-> m_first_cycle]
    /\ m_faults' = {}
    /\ m_pc' = "scrape"
    /\ UNCHANGED <<m_variant, m_excel, m_api, m_driver, m_courts,
                   m_excel_success, m_trace, m_exit>>
    /\ UNCHANGED <<driverVars, normVars, extractVars, sinkVars, ingestVars,
                   fixtureVars,
                   captchaVars>>

\* courts_data = scrape_display_board(driver); "if courts_data:" ... "else:".
MainScrape ==
    /\ m_pc = "scrape"
    /\ \E fault \in ScrapeFaults, n \in 0..MaxRecs :
          /\ fault = "extract" => n >= 1
          /\ LET r == scrape_data(fault, n)
             IN /\ m_trace' = m_trace \o
                       (IF r.fetched THEN <<"fetch", "extract">> ELSE <<"fetch">>)
                /\ m_faults' = IF fault = "none" THEN m_faults
                               ELSE m_faults \cup {fault}
                /\ IF r.raised
                   THEN /\ m_pc' = "handler"
                        /\ m_exit' = "exception"
                        /\ UNCHANGED <<m_courts, m_excel_success>>
                   ELSE /\ m_courts' = r.n
                        /\ m_pc' = IF r.n > 0 THEN "save" ELSE AfterNoData
                        /\ m_excel_success' =
                              IF r.n > 0 /\ MainHasToggles THEN FALSE
                              ELSE m_excel_success
                        /\ UNCHANGED m_exit
    /\ UNCHANGED <<m_variant, m_excel, m_api, m_driver, m_cycle_count,
                   m_last_backup_cycle, m_cycles,
                   m_first_cycle, m_owed, m_before>>
    /\ UNCHANGED <<driverVars, normVars, extractVars, sinkVars, ingestVars,
                   fixtureVars,
                   captchaVars>>

\* excel_success = save_to_excel(...): False when the write fails.
MainSave ==
    /\ m_pc = "save"
    /\ IF MainHasToggles /\ ~m_excel
       THEN UNCHANGED <<m_excel_success, m_trace, m_faults>>
       ELSE \E fault \in {"none", "save"} :
               /\ m_excel_success' = (fault = "none")
               /\ m_trace' = Append(m_trace, "persist")
               /\ m_faults' = IF fault = "none" THEN m_faults
                              ELSE m_faults \cup {fault}
    /\ m_pc' = IF MainHasToggles THEN "post" ELSE "backup"
    /\ UNCHANGED <<m_variant, m_excel, m_api, m_driver, m_cycle_count,
                   m_last_backup_cycle, m_courts, m_exit, m_cycles,
                   m_first_cycle, m_owed, m_before>>
    /\ UNCHANGED <<driverVars, normVars, extractVars, sinkVars, ingestVars,
                   fixtureVars,
                   captchaVars>>

\* if ENABLE_API_POSTING:
PostOnlyAfterSave == m_api /\ m_excel_success

PostEnabled == m_api

\* if ENABLE_API_POSTING: api_result = post_all_courts_to_api(courts_data);
\* a refused or unreachable endpoint only shows in the counts.
MainPost ==
    /\ m_pc = "post"
    /\ IF PostEnabled
       THEN \E fault \in {"none", "api"} :
               /\ m_trace' = Append(m_trace, "ingest")
               /\ m_faults' = IF fault = "none" THEN m_faults
                              ELSE m_faults \cup {fault}
       ELSE UNCHANGED <<m_trace, m_faults>>
    /\ m_pc' = "backup"
    /\ UNCHANGED <<m_variant, m_excel, m_api, m_driver, m_cycle_count,
                   m_last_backup_cycle, m_courts, m_excel_success, m_exit,
                   m_cycles,
                   m_first_cycle, m_owed, m_before>>
    /\ UNCHANGED <<driverVars, normVars, extractVars, sinkVars, ingestVars,
                   fixtureVars,
                   captchaVars>>

\* backup_success = create_backup_from_main_excel(...);
\* if backup_success: last_backup_cycle = cycle_count
CountsFailedBackup(fault, cycle, last) == cycle

LastBackupAfter(fault, cycle, last) == IF fault = "none" THEN cycle ELSE last

\* "if success:" and the backup check; a failed backup leaves
\* last_backup_cycle alone.
MainBackup ==
    /\ m_pc = "backup"
    /\ m_first_cycle' = IF m_excel_success THEN FALSE ELSE m_first_cycle
    /\ IF m_excel_success
          /\ m_cycle_count - m_last_backup_cycle >= BACKUP_CYCLE_INTERVAL
       THEN \E fault \in {"none", "backup"} :
               /\ m_last_backup_cycle' =
                     LastBackupAfter(fault, m_cycle_count, m_last_backup_cycle)
               /\ m_trace' = Append(m_trace, "backup")
               /\ m_faults' = IF fault = "none" THEN m_faults
                              ELSE m_faults \cup {fault}
               /\ m_owed' = IF fault = "backup" THEN "failed"
                             ELSE IF m_owed = "failed" THEN "retried"
                             ELSE "none"
       ELSE UNCHANGED <<m_last_backup_cycle, m_trace, m_faults, m_owed>>
    /\ m_pc' = "sleep"
    /\ UNCHANGED <<m_variant, m_excel, m_api, m_driver, m_cycle_count,
                   m_courts, m_excel_success, m_exit, m_cycles, m_before>>
    /\ UNCHANGED <<driverVars, normVars, extractVars, sinkVars, ingestVars,
                   fixtureVars,
                   captchaVars>>

\* time.sleep(SCRAPE_INTERVAL) has run to its end; back to "while True".
MainSleep ==
    /\ m_pc = "sleep"
    /\ m_trace' = <<"sleep">>
    /\ m_pc' = "top"
    /\ UNCHANGED <<m_variant, m_excel, m_api, m_driver, m_cycle_count,
                   m_last_backup_cycle, m_courts, m_excel_success, m_faults,
                   m_exit, m_cycles,
                   m_first_cycle, m_owed, m_before>>
    /\ UNCHANGED <<driverVars, normVars, extractVars, sinkVars, ingestVars,
                   fixtureVars,
                   captchaVars>>

\* Ctrl-C anywhere in the loop body: except KeyboardInterrupt.
MainInterrupt ==
    /\ m_pc \in LoopPcs
    /\ m_pc' = "handler"
    /\ m_exit' = "interrupt"
    /\ UNCHANGED <<m_variant, m_excel, m_api, m_driver, m_cycle_count,
                   m_last_backup_cycle, m_courts, m_excel_success, m_trace,
                   m_faults, m_cycles,
                   m_first_cycle, m_owed, m_before>>
    /\ UNCHANGED <<driverVars, normVars, extractVars, sinkVars, ingestVars,
                   fixtureVars,
                   captchaVars>>

\* An exception that no function of the loop body catches (create_folder on
\* a new day, a print): except Exception.
MainException ==
    /\ m_pc \in LoopPcs
    /\ m_pc' = "handler"
    /\ m_exit' = "exception"
    /\ UNCHANGED <<m_variant, m_excel, m_api, m_driver, m_cycle_count,
                   m_last_backup_cycle, m_courts, m_excel_success, m_trace,
                   m_faults, m_cycles,
                   m_first_cycle, m_owed, m_before>>
    /\ UNCHANGED <<driverVars, normVars, extractVars, sinkVars, ingestVars,
                   fixtureVars,
                   captchaVars>>

\* The except clause prints, then "finally: driver.quit()", then main() is
\* over.
MainFinally ==
    /\ m_pc = "handler"
    /\ m_driver' = "quit"
    /\ m_pc' = AfterFinally
    /\ UNCHANGED <<m_variant, m_excel, m_api, m_cycle_count,
                   m_last_backup_cycle, m_courts, m_excel_success, m_trace,
                   m_faults, m_exit, m_cycles,
                   m_first_cycle, m_owed, m_before>>
    /\ UNCHANGED <<driverVars, normVars, extractVars, sinkVars, ingestVars,
                   fixtureVars,
                   captchaVars>>

\* The steps of the loop body, in the order the interpreter takes them.
MainLoopStep ==
    MainTop \/ MainScrape \/ MainSave \/ MainPost \/ MainBackup \/ MainSleep

MainNext ==
    \/ MainSetupDriver
    \/ MainInitPage
    \/ MainTop
    \/ MainScrape
    \/ MainSave
    \/ MainPost
    \/ MainBackup
    \/ MainSleep
    \/ MainInterrupt
    \/ MainException
    \/ MainFinally

(* ------------- one cycle over a fixed three-row table ----------------- *)
\* The row loop of scrape_display_board (Allahabad, Jharkhand) run over a
\* table of three data rows under a header row, then post_all_courts_to_api
\* over what it returned, against an endpoint that answers 201 every time.
FixtureVariants == {"allahabad", "jharkhand"}

RowKinds == {"well_formed", "not_in_session", "malformed"}

\* Allahabad: Court No | Serial No | List | Progress | Case Details, and
\* Important Information where the board has that column.
\* Jharkhand: Court | Sl.No. | Case No. | Status.
FullWidths(v) == IF v = "allahabad" THEN {5, 6} ELSE {4}

\* The td cells of a row of the table: a full row; a full row without its
\* case-number cell; a not-in-session row in the form the script looks for
\* (Allahabad: the text in the second cell of a full row, Jharkhand: court
\* and status only).
CellsOf(v, width, kind) ==
    CASE kind = "well_formed" -> width
      [] kind = "malformed" -> width - 1
      [] kind = "not_in_session" -> IF v = "allahabad" THEN width ELSE 2

FixtureRow(v, width, kind) == [kind |-> kind, cells |-> CellsOf(v, width, kind)]

\* The three rows in any order.
Fixtures(v, width) ==
    {f \in [1..3 -> {FixtureRow(v, width, k) : k \in RowKinds}] :
        \A k \in RowKinds : \E i \in 1..3 : f[i].kind = k}

NoRecords == [recs |-> <<>>, log |-> <<>>]

\* One iteration of the row loop: the records appended and the lines
\* printed about a row that gives none.
RowLoopBody(v, row) ==
    IF v = "allahabad"
    THEN IF row.cells < 5
         THEN NoRecords                            \* "continue", nothing printed
         ELSE [recs |-> <<row.kind>>, log |-> <<>>]
    ELSE IF row.cells < 2 THEN NoRecords
         ELSE IF row.cells = 2 \/ row.cells >= 4
              THEN [recs |-> <<row.kind>>, log |-> <<>>]
              ELSE NoRecords                       \* "Skip malformed rows"

\* The mock endpoint: 201, with or without a JSON body.
MockAnswers == {a \in Answers : a.kind = "response" /\ a.status = 201}

FixtureInit ==
    /\ f_variant \in FixtureVariants
    /\ f_width \in FullWidths(f_variant)
    /\ f_rows \in Fixtures(f_variant, f_width)
    /\ f_idx = 1
    /\ f_courts = <<>>
    /\ f_log = <<>>
    /\ f_pc = "rows"
    /\ f_posted = 0
    /\ f_successful = 0
    /\ f_failed = 0
    /\ f_errors = <<>>
    /\ f_result = NoApiResult

\* for row_idx, row in enumerate(rows[1:], 1): ...
FixtureExtractRow ==
    /\ f_pc = "rows" /\ f_idx <= Len(f_rows)
    /\ LET r == RowLoopBody(f_variant, f_rows[f_idx])
       IN /\ f_courts' = f_courts \o r.recs
          /\ f_log' = f_log \o r.log
    /\ f_idx' = f_idx + 1
    /\ UNCHANGED <<f_variant, f_width, f_rows, f_pc, f_posted, f_successful,
                   f_failed, f_errors, f_result>>
    /\ UNCHANGED <<driverVars, normVars, extractVars, sinkVars, ingestVars,
                   mainVars, captchaVars>>

\* return all_courts_data; main() hands it to post_all_courts_to_api.
FixtureExtracted ==
    /\ f_pc = "rows" /\ f_idx > Len(f_rows)
    /\ f_pc' = "post"
    /\ UNCHANGED <<f_variant, f_width, f_rows, f_idx, f_courts, f_log,
                   f_posted, f_successful, f_failed, f_errors, f_result>>
    /\ UNCHANGED <<driverVars, normVars, extractVars, sinkVars, ingestVars,
                   mainVars, captchaVars>>

\* One iteration of the loop of post_all_courts_to_api.
FixturePost ==
    /\ f_pc = "post" /\ f_posted < Len(f_courts)
    /\ \E answer \in MockAnswers :
          LET r == post_court_data_to_api(answer)
          IN /\ f_posted' = f_posted + 1
             /\ f_successful' = IF r.ok THEN f_successful + 1 ELSE f_successful
             /\ f_failed' = IF r.ok THEN f_failed ELSE f_failed + 1
             /\ f_errors' = IF r.ok THEN f_errors ELSE Append(f_errors, r.msg)
    /\ UNCHANGED <<f_variant, f_width, f_rows, f_idx, f_courts, f_log, f_pc,
                   f_result>>
    /\ UNCHANGED <<driverVars, normVars, extractVars, sinkVars, ingestVars,
                   mainVars, captchaVars>>

\* return {"total": ..., "successful": ..., "failed": ..., "errors": ...}
FixtureReport ==
    /\ f_pc = "post" /\ f_posted = Len(f_courts)
    /\ f_result' = ApiResult(Len(f_courts), f_successful, f_failed, f_errors)
    /\ f_pc' = "done"
    /\ UNCHANGED <<f_variant, f_width, f_rows, f_idx, f_courts, f_log,
                   f_posted, f_successful, f_failed, f_errors>>
    /\ UNCHANGED <<driverVars, normVars, extractVars, sinkVars, ingestVars,
                   mainVars, captchaVars>>

FixtureNext ==
    FixtureExtractRow \/ FixtureExtracted \/ FixturePost \/ FixtureReport

(* --------------------- the parts not in use --------------------------- *)
\* Each specification runs one part of the model and leaves the variables of
\* the other parts at these values.
DriverIdle ==
    /\ variant = "telangana"
    /\ ENABLE_EXCEL_SAVING = TRUE
    /\ ENABLE_API_POSTING = FALSE
    /\ now = 1
    /\ dayfile = [d \in Days |-> NoFile]
    /\ backups = {}
    /\ pc = "idle"
    /\ driver_open = FALSE
    /\ date_folder = None
    /\ excel_path = None
    /\ backup_path = None
    /\ cycle_count = 0
    /\ first_cycle = TRUE
    /\ last_backup_cycle = 0
    /\ pending_backup_data = <<>>
    /\ courts_data = <<>>
    /\ excel_success = FALSE
    /\ api_result = NoResult
    /\ runs = 0
    /\ totalCycles = 0
    /\ hist = NoHist

NormIdle == nfn = "idle" /\ nin = NoneValue /\ nout = NoOutput

ExtractIdle ==
    /\ xvariant = "idle"
    /\ xrows = <<>>
    /\ xidx = 0
    /\ all_courts_data = <<>>
    /\ xpc = "idle"
    /\ xresult = <<>>
    /\ current_court = 0

SinkIdle ==
    /\ sfile = NoFile /\ sdata = <<>> /\ sfile0 = NoFile /\ scalls = <<>>
    /\ scrash = "none" /\ sbk = <<>> /\ sbackups = <<>>
    /\ slast_backup_cycle = 0 /\ svariant = "idle"

IngestIdle ==
    /\ ivariant = "idle"
    /\ ienabled = FALSE
    /\ ibatch = 0
    /\ ipc = "idle"
    /\ icalls = 0
    /\ iidx = 0
    /\ successful_posts = 0
    /\ failed_posts = 0
    /\ errors = <<>>
    /\ ianswer = NoAnswer
    /\ ireturn = NoReturn
    /\ iattempts = <<>>
    /\ iresult = NoApiResult
    /\ ifailed = <<>>

MainIdle ==
    /\ m_variant = "idle"
    /\ m_excel = FALSE
    /\ m_api = FALSE
    /\ m_pc = "idle"
    /\ m_driver = "none"
    /\ m_cycle_count = 0
    /\ m_last_backup_cycle = 0
    /\ m_courts = 0
    /\ m_excel_success = FALSE
    /\ m_trace = <<>>
    /\ m_faults = {}
    /\ m_exit = "none"
    /\ m_cycles = 0
    /\ m_first_cycle = TRUE
    /\ m_owed = "none"
    /\ m_before = NoCounters

CaptchaIdle ==
    /\ c_pc = "idle"
    /\ c_driver = "none"
    /\ c_auto_tries = 0
    /\ c_manual = FALSE
    /\ c_elapsed = 0
    /\ c_result = "none"
    /\ c_cycles = 0
    /\ c_written = 0

FixtureIdle ==
    /\ f_variant = "idle"
    /\ f_width = 0
    /\ f_rows = <<>>
    /\ f_idx = 0
    /\ f_courts = <<>>
    /\ f_log = <<>>
    /\ f_pc = "idle"
    /\ f_posted = 0
    /\ f_successful = 0
    /\ f_failed = 0
    /\ f_errors = <<>>
    /\ f_result = NoApiResult

(* ------------------------- specifications ----------------------------- *)
Init == DriverInit /\ NormIdle /\ ExtractIdle /\ SinkIdle /\ IngestIdle
    /\ MainIdle /\ FixtureIdle /\ CaptchaIdle

Next == DriverNext

Spec == Init /\ [][Next]_vars

SinkStart == DriverIdle /\ NormIdle /\ ExtractIdle /\ SinkInit /\ IngestIdle
    /\ MainIdle /\ FixtureIdle /\ CaptchaIdle

SinkNext == SinkSave \/ SinkCrash \/ SinkBackup

SpecSink == SinkStart /\ [][SinkNext]_vars

ExtractStart == DriverIdle /\ NormIdle /\ ExtractInit /\ SinkIdle /\ IngestIdle
    /\ MainIdle /\ FixtureIdle /\ CaptchaIdle

SpecExtract == ExtractStart /\ [][ExtractNext]_vars

PackedStart ==
    DriverIdle /\ NormIdle /\ PackedInit /\ SinkIdle /\ IngestIdle
    /\ MainIdle /\ FixtureIdle /\ CaptchaIdle

SpecPacked == PackedStart /\ [][PackedNext]_vars

CycleStartState ==
    DriverIdle /\ NormIdle /\ ExtractIdle /\ CycleInit /\ IngestIdle
    /\ MainIdle /\ FixtureIdle /\ CaptchaIdle

SpecCycle == CycleStartState /\ [][CycleNext]_vars

CaptchaStart ==
    DriverIdle /\ NormIdle /\ ExtractIdle /\ SinkIdle /\ IngestIdle
    /\ MainIdle /\ FixtureIdle /\ CaptchaInit

SpecCaptcha == CaptchaStart /\ [][CaptchaNext]_vars

\* The interpreter keeps running main(), and the clock keeps running.
SpecCaptchaFair == SpecCaptcha /\ WF_vars(CaptchaStep)

RangeStart ==
    DriverIdle /\ NormIdle /\ RangeInit /\ SinkIdle /\ IngestIdle
    /\ MainIdle /\ FixtureIdle /\ CaptchaIdle

SpecRange == RangeStart /\ [][RangeNext]_vars

CarryStart ==
    DriverIdle /\ NormIdle /\ CarryInit /\ SinkIdle /\ IngestIdle
    /\ MainIdle /\ FixtureIdle /\ CaptchaIdle

SpecCarry == CarryStart /\ [][CarryNext]_vars

NormStart == DriverIdle /\ NormInit /\ ExtractIdle /\ SinkIdle /\ IngestIdle
    /\ MainIdle /\ FixtureIdle /\ CaptchaIdle

SpecNorm == NormStart /\ [][NormNext]_vars

IngestStart ==
    DriverIdle /\ NormIdle /\ ExtractIdle /\ SinkIdle /\ IngestInit
    /\ MainIdle /\ FixtureIdle /\ CaptchaIdle

SpecIngest == IngestStart /\ [][IngestNext]_vars

MainStart ==
    DriverIdle /\ NormIdle /\ ExtractIdle /\ SinkIdle /\ IngestIdle
    /\ MainInit /\ FixtureIdle /\ CaptchaIdle

SpecMain == MainStart /\ [][MainNext]_vars

FixtureStart ==
    DriverIdle /\ NormIdle /\ ExtractIdle /\ SinkIdle /\ IngestIdle
    /\ MainIdle /\ FixtureInit /\ CaptchaIdle

SpecFixture == FixtureStart /\ [][FixtureNext]_vars

\* The interpreter keeps running the loop body: one thread, no scheduler.
SpecMainFair == SpecMain /\ WF_vars(MainLoopStep)

(* ------------------------- the driver's claims ------------------------ *)
\* The rows of the backup file written in the current cycle.
BackupWrittenThisCycle ==
    IF variant = "gwalior"
    THEN BackupFileOf(backup_path).rows
    ELSE (CHOOSE b \in backups :
             b.folder = date_folder /\ b.stamp = totalCycles).rows

\* C1 as stated: a backup file is produced exactly in the cycle that
\* completes a block of N cycles whose day-file save succeeded, and in no
\* other cycle.  (Runs in which a backup met an I/O error are left out.)
C1_BackupEveryNSuccessfulPersists ==
    (pc = "sleep" /\ ~hist.bkFault) =>
        (hist.produced <=>
            (hist.saved /\ hist.okSaves % BACKUP_CYCLE_INTERVAL = 0))

\* C1 as the code has it: the counter counts every cycle, whatever its
\* outcome.  A backup is attempted exactly in the cycles whose save succeeded
\* and in which at least N cycles have begun since the last backup file (if
\* none: since the rollover, or since the launch where the rollover keeps the
\* counter); the attempt writes a backup file unless its I/O fails; and the
\* set of backup files changes in no other step.
C1_BackupAfterNCyclesOfAnyOutcome ==
    /\ [](pc = "sleep" =>
            /\ hist.attempted <=>
                  (hist.saved /\ hist.since >= BACKUP_CYCLE_INTERVAL)
            /\ hist.produced <=> (hist.attempted /\ ~hist.bkErr))
    /\ [][(backups' # backups) <=> (pc = "backup" /\ hist'.produced)]_vars

\* C1's case: a backup file written in a cycle that is the first successful
\* save of its block, the cycles before it having been empty or failed.
C1_Witness ==
    /\ pc = "sleep"
    /\ hist.produced
    /\ hist.okSaves = 1
    /\ hist.since >= BACKUP_CYCLE_INTERVAL
    /\ BACKUP_CYCLE_INTERVAL > 1

\* C2: every backup file that is produced holds as many rows as the day-file
\* holds at that moment.
C2_BackupHoldsWholeDayFile ==
    (pc = "sleep" /\ hist.produced) =>
        Len(BackupWrittenThisCycle) = Len(dayfile[excel_path].rows)

\* C3: a rollover detected at the top of a cycle switches the cached folder
\* and day-file to the new day, and from then on only the cached day's file
\* is ever written: no file of an earlier day changes again.
C3_RolloverSwitchesDayFile ==
    /\ [](hist.rolled =>
            (date_folder # None /\ excel_path = date_folder))
    /\ [][/\ (pc = "top" /\ hist'.rolled) =>
                (date_folder' = now /\ excel_path' = now)
          /\ \A d \in Days :
                dayfile'[d] # dayfile[d] =>
                    (pc = "save" /\ d = excel_path /\ d = date_folder)]_vars

\* C3's case: after a rollover the cycle's records went into the new day's
\* file, the previous day's file being on disk.
C3_Witness ==
    /\ pc = "backup"
    /\ hist.rolled
    /\ hist.saved
    /\ excel_path > 1
    /\ dayfile[excel_path].rows = courts_data
    /\ \E d \in Days : d < excel_path /\ dayfile[d].exists

\* C4: when a rollover is detected, the cycle's scrape starts with the cycle
\* counter at 1, the last-backup counter at 0 and the first-cycle flag set.
C4_RolloverResetsCounters ==
    (pc = "scrape" /\ hist.rolled) =>
        (cycle_count = 1 /\ last_backup_cycle = 0 /\ first_cycle)

(* ------------------ claims about the field normalizers ---------------- *)
Applied == nfn \in {"PortBlair", "delhi", "madras", "serial", "patna"}
CaseExtractors == {"PortBlair", "delhi", "madras"}
HasDigit(str) == \E k \in 1..Len(str) : IsDigit(str[k])
AllIn(str, a, b, S) == \A k \in a..b : str[k] \in S
Empties == {StrValue(<<>>), ListValue(<<>>)}
AllEmpty(vals) == \A k \in 1..Len(vals) : vals[k] \in Empties

\* The input could not be parsed: it is no string, or it is handed to an
\* extractor of numbers and holds no digit.
ParseFailure ==
    \/ nin.t # "str"
    \/ nfn # "patna" /\ ~HasDigit(nin.s)

\* C6: no normalizer raises, on any input; whenever the input cannot be
\* parsed, everything the normalizer returns is an empty string or an empty
\* list.
C6_NeverRaisesAndFailureYieldsEmpty ==
    Applied => /\ ~nout.raised
               /\ ParseFailure => AllEmpty(nout.ret)

\* C6, as the code has it: no normalizer raises on a str, None, int or list;
\* when the input cannot be parsed the extractors of numbers return "" and
\* the range expander [], while patna's extract_case_info returns
\* ("", case_text), the input itself as the case number, unless the input is
\* empty.
C6_NeverRaisesAndFailureYieldsDefault ==
    Applied =>
        /\ ~nout.raised
        /\ ParseFailure =>
              IF nfn = "patna" /\ ~Falsy(nin)
              THEN nout.ret = <<StrValue(<<>>), nin>>
              ELSE AllEmpty(nout.ret) /\ nout.ret # <<>>

\* C6's case: a non-string made the body of extract_case_info raise.
C6_Witness ==
    /\ nfn = "patna" /\ nin = IntValue(5)
    /\ nout = Returned(<<StrValue(<<>>), IntValue(5)>>)

\* Where a case string <PREFIX> sep <digits> / <year> has its separators:
\* the PREFIX is letters and blanks and starts with a letter, <digits> and
\* <year> are runs of digits.
CaseForm(str, sep) ==
    {ij \in (2..Len(str)) \X (4..Len(str)) :
        /\ ij[1] + 1 < ij[2] /\ ij[2] < Len(str)
        /\ str[ij[1]] = sep /\ str[ij[2]] = "/"
        /\ str[1] \in Letters
        /\ AllIn(str, 1, ij[1] - 1, Letters \cup {" "})
        /\ AllIn(str, ij[1] + 1, ij[2] - 1, Digits)
        /\ AllIn(str, ij[2] + 1, Len(str), Digits)}
FormDigits(str, ij) == SubSeq(str, ij[1] + 1, ij[2] - 1)
FormYear(str, ij) == SubSeq(str, ij[2] + 1, Len(str))

SitePatternMatches(str) ==
    CASE nfn = "PortBlair" -> re_search("/(d+)/", str).found
      [] nfn = "delhi" -> re_search("-s*(d+)s*/", str).found
      [] nfn = "madras" -> re_search(".?(d+)/", str).found

\* The first run of digits in a string that has a digit.
FirstNumber(str) ==
    LET p == CHOOSE k \in 1..Len(str) :
                 IsDigit(str[k]) /\ \A q \in 1..(k - 1) : ~IsDigit(str[q])
    IN SubSeq(str, p, SkipDigits(str, p) - 1)

\* C8: when the site's pattern does not match, the extractor returns the
\* first number in the string, and "" only if the string has no digit.
C8_FallbackIsFirstNumber ==
    (nfn \in CaseExtractors /\ nin.t = "str" /\ ~SitePatternMatches(nin.s)) =>
        nout = Returned(<<StrValue(IF HasDigit(nin.s) THEN FirstNumber(nin.s)
                                   ELSE <<>>)>>)

\* Where a serial string "<prefix> <A>-<B>" has its blank and its dash, and
\* where "<prefix> <N>" has its blank; the prefix is letters.
RangeForm(str) ==
    {ij \in (2..Len(str)) \X (4..Len(str)) :
        /\ ij[1] + 1 < ij[2] /\ ij[2] < Len(str)
        /\ str[ij[1]] = " " /\ str[ij[2]] = "-"
        /\ AllIn(str, 1, ij[1] - 1, Letters)
        /\ AllIn(str, ij[1] + 1, ij[2] - 1, Digits)
        /\ AllIn(str, ij[2] + 1, Len(str), Digits)}
SingleForm(str) ==
    {i \in 2..(Len(str) - 1) :
        /\ str[i] = " "
        /\ AllIn(str, 1, i - 1, Letters)
        /\ AllIn(str, i + 1, Len(str), Digits)}
Interval(a, b) == [k \in 1..(b - a + 1) |-> a + k - 1]

\* C9: the range expander returns [A, ..., B] on "<prefix> <A>-<B>" with
\* A <= B, [N] on "<prefix> <N>", and [] on an input that is empty, is no
\* string or holds no digit.
C9_RangeExpander ==
    nfn = "serial" =>
        /\ nin.t = "str" =>
              /\ \A ij \in RangeForm(nin.s) :
                    LET A == int(SubSeq(nin.s, ij[1] + 1, ij[2] - 1))
                        B == int(SubSeq(nin.s, ij[2] + 1, Len(nin.s)))
                    IN A <= B => nout = Returned(<<ListValue(Interval(A, B))>>)
              /\ \A i \in SingleForm(nin.s) :
                    nout = Returned(<<ListValue(
                                <<int(SubSeq(nin.s, i + 1, Len(nin.s)))>>)>>)
        /\ (nin.t # "str" \/ ~HasDigit(nin.s)) =>
              nout = Returned(<<ListValue(<<>>)>>)

\* C9's case: a range of more than two serial numbers was expanded.
C9_Witness ==
    /\ nfn = "serial" /\ nin.t = "str"
    /\ RangeForm(nin.s) # {}
    /\ Len(nout.ret[1].l) > 2

(* -------------------- claims about the ingestion step ----------------- *)
\* C12: a POST of one record returns a pair and never raises, and the pair's
\* bool is true exactly when the endpoint answered with HTTP 200 or 201.
C12_PostReturnsOkExactlyOn200Or201 ==
    ianswer # NoAnswer =>
        /\ ireturn.exc = "none"
        /\ ireturn.ok <=> (ianswer.kind = "response"
                            /\ ianswer.status \in {200, 201})

\* How often record i has been POSTed in the cycle.
TimesPosted(i) == Cardinality({k \in 1..Len(iattempts) : iattempts[k] = i})

\* C13: in one cycle no record of the batch is POSTed more than once.
C13_EachRecordPostedAtMostOnce ==
    \A i \in 1..ibatch : TimesPosted(i) <= 1

\* C14: no outcome of a POST aborts the batch: the loop never lets an
\* exception out, and when post_all_courts_to_api has returned, every record
\* of the batch has been POSTed and counted as successful or failed.
C14_BadRecordNeverAbortsBatch ==
    /\ ipc # "raised"
    /\ (ipc = "main" /\ ~iresult.none) =>
          /\ \A i \in 1..ibatch : TimesPosted(i) >= 1
          /\ iresult.total = ibatch
          /\ iresult.successful + iresult.failed = ibatch
          /\ Len(iresult.errors) = iresult.failed

\* C14's case: the batch was posted to its end although the POST of its
\* first record had failed.
C14_Witness ==
    /\ ipc = "main" /\ ~iresult.none /\ icalls = 1
    /\ ibatch > 1
    /\ iresult.failed >= 1 /\ iresult.successful >= 1
    /\ ireturn.ok

(* ------------------------ the claims about main() --------------------- *)
\* C15: once started, the loop body runs forever: while the script is in the
\* loop its next step can always be taken; the loop is left only by an
\* operator interrupt or by an exception caught at the top level, and after
\* either the script ends: it never re-enters the loop.
C15_LoopLeftOnlyByInterruptOrException ==
    /\ []((m_pc \in LoopPcs /\ m_cycles < MaxCycles) => ENABLED MainLoopStep)
    /\ [][/\ (m_pc \in LoopPcs /\ m_pc' \notin LoopPcs) =>
               (m_pc' = "handler" /\ m_exit' \in {"interrupt", "exception"})
          /\ m_pc = "handler" => m_pc' = "ended"
          /\ m_pc = "ended" => m_pc' = "ended"]_vars

C15_Witness ==
    m_pc = "ended" /\ m_exit = "exception" /\ m_cycles >= 2

\* C16: whenever the script has ended after the browser was opened (by an
\* interrupt, by an exception caught at the top level, or by a failure of the
\* one-time page interactions before the loop), the browser has been closed.
C16_BrowserClosedWhenProcessEnds ==
    m_pc = "ended" => m_driver # "open"

\* The failures met in the step just taken.
NewFaults == m_faults' \ m_faults

\* C17: a page-load or element-wait timeout, a missing table, an extraction
\* error, a failed save, a failed backup or a failed POST never stops the
\* script: the step that meets the failure stays in the loop with the browser
\* open, a failed fetch gives zero records and goes straight to the sleep, an
\* extraction error gives the records that remain (none: straight to the
\* sleep), a failed save skips the backup bookkeeping, a failed backup leaves
\* last_backup_cycle alone; and the cycle then reaches its sleep and the top
\* of the next cycle, unless the operator interrupts or an unhandled
\* exception reaches the top level.
C17_FailuresDegradeAndLoopGoesOn ==
    /\ [][NewFaults # {} =>
             /\ m_pc' \in LoopPcs
             /\ m_driver' = "open"
             /\ m_exit' = "none"
             /\ (NewFaults \cap {"timeout", "no_table"} # {}) =>
                    (m_courts' = 0 /\ m_pc' = "sleep")
             /\ "extract" \in NewFaults =>
                    (m_courts' < MaxRecs /\ (m_courts' = 0 <=> m_pc' = "sleep"))
             /\ "save" \in NewFaults => ~m_excel_success'
             /\ "backup" \in NewFaults =>
                    m_last_backup_cycle' = m_last_backup_cycle]_vars
    /\ (m_faults # {} /\ m_pc \in LoopPcs) ~> (m_pc = "top" \/ m_exit # "none")

C17_Witness ==
    /\ m_pc = "top" /\ m_exit = "none" /\ m_trace = <<"sleep">>
    /\ m_faults \cap {"timeout", "no_table", "extract"} # {}
    /\ m_cycles >= 2

\* The place of a step in a cycle; rows are normalised as the extraction
\* builds each record, and the backup comes between the POSTs and the sleep.
StepRank(step) ==
    CASE step = "sleep" -> 0
      [] step = "fetch" -> 1
      [] step = "extract" -> 2
      [] step = "persist" -> 3
      [] step = "ingest" -> 4
      [] step = "backup" -> 5

\* C20: the steps taken since the last completed sleep are in the order
\* fetch, extract (with normalisation), persist, ingest; when the records are
\* POSTed, the day-file save of the cycle, if the script saves, has been
\* attempted, and no save follows the POSTs; and a fetch starts only in the
\* first cycle or right after the sleep of the cycle before has completed,
\* also when that cycle had no records.
C20_StepsInOrderAndFetchAfterSleep ==
    /\ [](\A i, j \in 1..Len(m_trace) :
             i < j => StepRank(m_trace[i]) < StepRank(m_trace[j]))
    /\ [][/\ (m_pc = "post" /\ m_trace' # m_trace) =>
               (m_excel => \E i \in 1..Len(m_trace) : m_trace[i] = "persist")
          /\ (m_pc = "scrape" /\ m_trace' # m_trace) =>
               /\ m_trace \in {<<>>, <<"sleep">>}
               /\ m_trace = <<>> => m_cycles = 1]_vars

C20_Witness ==
    /\ m_cycles >= 2
    /\ m_trace = <<"sleep", "fetch", "extract", "persist", "ingest">>
    /\ m_pc = "backup"

CourtCells(cells) == {k \in 0..(Len(cells) - 1) : Cell(cells, k) = "court"}

\* The cells of the court whose number is at position c: those after it, up
\* to the next court-number cell.
OwnCells(cells, c) ==
    {k \in (c + 1)..(Len(cells) - 1) :
        \A d \in CourtCells(cells) : d > c => k < d}

FieldSet(rec) == {rec.fields[k] : k \in 1..Len(rec.fields)}

RecordsOfRow(i) ==
    {k \in 1..Len(xresult) : xresult[k].row = i}

C23_RowAttributedToItsCourt ==
    (xpc = "returned" /\ xvariant = "chattisgarh") =>
        /\ \A i \in 1..Len(xrows) :
              xrows[i].cells >= 5 =>
                 \E k \in 1..Len(xresult) : xresult[k].row = i
        /\ \A k \in 1..Len(xresult) :
              xresult[k].court = xrows[xresult[k].row].court

RowsOf(file) == IF file.exists THEN Len(file.rows) ELSE 0

\* C24: after the save section of a cycle that extracted at least one record
\* and whose save succeeded, the day-file holds exactly Len(sdata) rows more
\* than before the cycle: the record set was appended once.
C24_CycleGrowsDayFileByItsRecords ==
    (svariant \in SaveVariants /\ scalls # <<>> /\ scalls[Len(scalls)]) =>
        RowsOf(sfile) = RowsOf(sfile0) + Len(sdata)

\* A step of main() in which create_backup_from_main_excel was called, and
\* one in which it returned True.
BackupAttempted == m_pc = "backup" /\ Len(m_trace') = Len(m_trace) + 1

BackupSucceeded == BackupAttempted /\ "backup" \notin m_faults'

\* The step that runs the part of the cycle after the save and the posting.
BackupCheck == m_pc = "backup" /\ m_pc' = "sleep"

RolloverStep == m_pc = "top" /\ m_cycle_count' = 1 /\ m_last_backup_cycle' = 0

ZeroRecordCycleOver == m_pc = "sleep" /\ m_courts = 0 /\ m_cycles >= 1

NothingWritten ==
    \A k \in 1..Len(m_trace) : m_trace[k] \notin {"persist", "ingest", "backup"}

C27_PostsWhateverTheSaveAndChangesNoCounter ==
    /\ []((m_pc = "backup" /\ m_api /\ m_courts >= 1) =>
             \E k \in 1..Len(m_trace) : m_trace[k] = "ingest")
    /\ [][m_pc = "post" =>
             UNCHANGED <<m_cycle_count, m_last_backup_cycle, m_first_cycle>>]_vars
    /\ [][BackupCheck =>
             (BackupAttempted <=>
                (m_excel_success
                 /\ m_cycle_count - m_last_backup_cycle
                       >= BACKUP_CYCLE_INTERVAL))]_vars

\* The save failed, the records were posted, some POST failed, and the
\* cycle is at its backup check.
C27_Witness ==
    /\ m_pc = "backup" /\ m_api /\ m_courts >= 1
    /\ {"save", "api"} \subseteq m_faults
    /\ \E k \in 1..Len(m_trace) : m_trace[k] = "ingest"

\* C28: when post_all_courts_to_api has returned for a batch with posting
\* switched on, total is the size of the batch and is successful + failed,
\* and errors holds one entry for each record whose POST failed and no
\* other, in the order of the batch.
C28_CountsAddUpAndErrorsFollowBatchOrder ==
    (ipc = "main" /\ ~iresult.none) =>
        /\ iresult.total = ibatch
        /\ iresult.total = iresult.successful + iresult.failed
        /\ iresult.failed = Len(ifailed)
        /\ Len(iresult.errors) = Len(ifailed)
        /\ \A k \in 1..Len(ifailed) : iresult.errors[k].court = ifailed[k]
        /\ \A j, k \in 1..Len(iresult.errors) :
              j < k => iresult.errors[j].court < iresult.errors[k].court

\* A batch of which two POSTs failed.
C28_Witness ==
    /\ ipc = "main" /\ ~iresult.none
    /\ iresult.failed >= 2
    /\ Len(iresult.errors) = 2

\* validate_captcha has returned, or the script has ended before it did.
SolveOrWaitOver == c_pc \in {"decide", "loop", "ended"}

SerialsOf(row) == extract_serial_number_range(StrValue(row.serial)).ret[1].l

Least(a, b) == IF a <= b THEN a ELSE b

\* C30: when the range-expanding extractor has returned, a row with s >= 1
\* serial numbers and c >= 1 case numbers has given max(s, c) records, the
\* k-th with the k-th serial and the k-th case, the last element of the
\* shorter list standing in where that list has run out; a row with c = 0
\* has given s records with empty case fields; a row with s = 0 none.
C30_RangeRowGivesMaxRecordsPairedInOrder ==
    (xpc = "returned" /\ xvariant = "PortBlair") =>
        \A i \in 1..Len(xrows) :
           xrows[i].cells >= 3 =>
              LET S == SerialsOf(xrows[i])
                  C == xrows[i].cases
                  R == SelectSeq(xresult, LAMBDA r : r.row = i)
              IN /\ (Len(S) >= 1 /\ Len(C) >= 1) =>
                       /\ Len(R) = (IF Len(S) >= Len(C) THEN Len(S) ELSE Len(C))
                       /\ \A k \in 1..Len(R) :
                             /\ R[k].serial = S[Least(k, Len(S))]
                             /\ R[k].case_full = C[Least(k, Len(C))]
                 /\ (Len(S) >= 1 /\ Len(C) = 0) =>
                       /\ Len(R) = Len(S)
                       /\ \A k \in 1..Len(R) :
                             /\ R[k].serial = S[k]
                             /\ R[k].case_full = <<>>
                             /\ R[k].case_number = <<>>
                 /\ Len(S) = 0 => R = <<>>

\* A range of two serials met three cases: three records, the last two
\* with the second serial.
C30_Witness ==
    /\ xpc = "returned" /\ xvariant = "PortBlair"
    /\ Len(xresult) = 3
    /\ xresult[1].serial = 1 /\ xresult[2].serial = 2 /\ xresult[3].serial = 2
    /\ xresult[1].case_full # xresult[2].case_full

=============================================================================
